---- MODULE Spec2Model ----
(***************************************************************************)
(* ng-spreadsheet: the formula engine (FormulaService) and the data        *)
(* service that owns the grid (SpreadsheetDataService).                    *)
(*                                                                         *)
(* Representation.  A formula text is kept as its token sequence: number   *)
(* literals, the operators + * ( ) : and cell references (with their $     *)
(* markers), and function names.  Rows and columns are 0-based, as in the  *)
(* code; the text form of row r is r+1.  Numbers are non-negative          *)
(* integers; texts are letter-only strings, the empty string and the two   *)
(* sentinels "#ERROR!" and "#N/A".  Formulas are infix expressions: two    *)
(* operands never stand side by side.                                      *)
(***************************************************************************)
EXTENDS Integers, Sequences, FiniteSets, TLC

\* ------------------------------------------------------------------ bounds
InitRows == 2
InitCols == 2
MaxRows == 3
MaxOps == 2
MaxUndo == 2
StackSlack == 6

\* Nested evaluateFormula activations the runtime's call stack can hold: more
\* than the grid has cells, so that only a re-entered cell can exhaust it.
MaxStack == MaxRows * InitCols + StackSlack

\* ------------------------------------------------------- program constants
MAX_PASSES == 10
MAX_HISTORY == 100

Max(a, b) == IF a >= b THEN a ELSE b
Min(a, b) == IF a <= b THEN a ELSE b

\* ------------------------------------------------------------------ values
\* A JavaScript value held in Cell.value / Cell.displayValue or returned by
\* evaluateFormula.  k = "num": the number n; as a display string, the decimal
\* text of n with d fractional digits.  k = "str": the string s.
\* k = "formula": the string "=" followed by the tokens f.  k = "null": null.
\* k = "throw": no value, an exception is propagating.  k = "bool": false
\* (n = 0) or true (n = 1), s its text.
NumV(n) == [k |-> "num", n |-> n, d |-> 0, s |-> "", f |-> <<>>]
FixedV(n, d) == [k |-> "num", n |-> n, d |-> d, s |-> "", f |-> <<>>]
StrV(s) == [k |-> "str", n |-> 0, d |-> 0, s |-> s, f |-> <<>>]
FormulaV(f) == [k |-> "formula", n |-> 0, d |-> 0, s |-> "", f |-> f]
NullV == [k |-> "null", n |-> 0, d |-> 0, s |-> "", f |-> <<>>]
ThrowV == [k |-> "throw", n |-> 0, d |-> 0, s |-> "", f |-> <<>>]
BoolV(b) ==
  [k |-> "bool", n |-> IF b THEN 1 ELSE 0, d |-> 0, s |-> IF b THEN "true" ELSE "false",
   f |-> <<>>]
ERROR == StrV("#ERROR!")

\* typeof value === 'string' && value.startsWith('=')
isFormula(v) == v.k = "formula"

\* ------------------------------------------------------------------ tokens
TNum(n) == [k |-> "num", n |-> n, s |-> "", col |-> <<>>, row |-> 0, ac |-> FALSE, ar |-> FALSE]
TOp(s) == [k |-> "op", n |-> 0, s |-> s, col |-> <<>>, row |-> 0, ac |-> FALSE, ar |-> FALSE]
TName(s) == [k |-> "name", n |-> 0, s |-> s, col |-> <<>>, row |-> 0, ac |-> FALSE, ar |-> FALSE]
\* text spliced into an expression by String(result), and a quoted "value"
TText(s) == [k |-> "text", n |-> 0, s |-> s, col |-> <<>>, row |-> 0, ac |-> FALSE, ar |-> FALSE]
TQuoted(s) == [k |-> "quoted", n |-> 0, s |-> s, col |-> <<>>, row |-> 0, ac |-> FALSE, ar |-> FALSE]
\* [$]COL[$]ROW, matched by /\$?([A-Z]+)\$?(\d+)/: col is the column's letters
\* (A = 1 .. Z = 26), row the row number as written
TRef(ac, col, ar, row) == [k |-> "ref", n |-> 0, s |-> "", col |-> col, row |-> row, ac |-> ac, ar |-> ar]
Ref(col, row) == TRef(FALSE, col, FALSE, row)

IsOp(ts, i, s) == i <= Len(ts) /\ ts[i].k = "op" /\ ts[i].s = s
IsNum(ts, i) == i <= Len(ts) /\ ts[i].k = "num"

RECURSIVE Flatten(_)
Flatten(ss) == IF ss = <<>> THEN <<>> ELSE Head(ss) \o Flatten(Tail(ss))

\* ---------------------------------------------------------------- safeEval
\* The characters of a text that survive /[^0-9+\-*/().]/g.  The texts of the
\* model hold no digit; only "#N/A" holds a surviving character.
SanitizeStr(s) == IF s = "#N/A" THEN <<TOp("/")>> ELSE <<>>

SanitizeTok(t) ==
  CASE t.k = "num" -> <<t>>
    [] t.k = "op" -> IF t.s \in {"+", "*", "(", ")", "/"} THEN <<t>> ELSE <<>>
    [] t.k \in {"text", "quoted"} -> SanitizeStr(t.s)
    [] OTHER -> <<>>

Sanitize(ts) == Flatten([i \in 1..Len(ts) |-> SanitizeTok(ts[i])])

\* JavaScript's reading of the sanitized text, as `return <text>`: Js(nt, ts,
\* i, acc) reads the nonterminal nt at position i.  ok = FALSE is a
\* SyntaxError or TypeError; i is the next position; u says the expression is
\* a unary-operator expression, which `**` refuses as a base.
JsFail == [ok |-> FALSE, v |-> 0, i |-> 0, u |-> FALSE]
JsOk(v, i, u) == [ok |-> TRUE, v |-> v, i |-> i, u |-> u]

RECURSIVE Js(_, _, _, _)

\* after "( expression": the ")" must follow, and no call `(...)(...)`
\* (TypeError) or literal (SyntaxError) after it
JsClose(ts, r) ==
  IF r.ok /\ IsOp(ts, r.i, ")") /\ ~IsOp(ts, r.i + 1, "(") /\ ~IsNum(ts, r.i + 1)
  THEN JsOk(r.v, r.i + 1, FALSE)
  ELSE JsFail

JsPlus(r) == IF r.ok THEN JsOk(r.v, r.i, TRUE) ELSE JsFail

\* Math.pow on the model's non-negative integers (0 ** 0 is 1)
Pow(a, b) == IF b = 0 THEN 1 ELSE a ^ b

JsPower(b, e) == IF e.ok THEN JsOk(Pow(b.v, e.v), e.i, FALSE) ELSE JsFail

\* "**" (two adjacent stars) is exponentiation, right-associative
JsExponent(ts, b) ==
  IF ~b.ok THEN JsFail
  ELSE IF IsOp(ts, b.i, "*") /\ IsOp(ts, b.i + 1, "*")
  THEN IF b.u THEN JsFail ELSE JsPower(b, Js("exponent", ts, b.i + 2, 0))
  ELSE b

JsTimes(ts, acc, b) == IF b.ok THEN Js("mulRest", ts, b.i, acc * b.v) ELSE JsFail

JsAdd(ts, acc, b) == IF b.ok THEN Js("addRest", ts, b.i, acc + b.v) ELSE JsFail

Js(nt, ts, i, acc) ==
  CASE nt = "additive" -> JsAdd(ts, 0, Js("multiplicative", ts, i, 0))
    [] nt = "addRest" ->
         \* "++" lexes as the increment operator, which has no valid operand
         IF ~IsOp(ts, i, "+") THEN JsOk(acc, i, FALSE)
         ELSE IF IsOp(ts, i + 1, "+") THEN JsFail
         ELSE JsAdd(ts, acc, Js("multiplicative", ts, i + 1, 0))
    [] nt = "multiplicative" -> JsTimes(ts, 1, Js("exponent", ts, i, 0))
    [] nt = "mulRest" ->
         IF IsOp(ts, i, "*") THEN JsTimes(ts, acc, Js("exponent", ts, i + 1, 0))
         ELSE JsOk(acc, i, FALSE)
    [] nt = "exponent" -> JsExponent(ts, Js("unary", ts, i, 0))
    [] nt = "unary" ->
         IF ~IsOp(ts, i, "+") THEN Js("primary", ts, i, 0)
         ELSE IF IsOp(ts, i + 1, "+") THEN JsFail
         ELSE JsPlus(Js("unary", ts, i + 1, 0))
    [] nt = "primary" ->
         \* a literal or a parenthesised expression; a literal followed by
         \* "(" is a call (TypeError), by a literal a SyntaxError
         IF IsNum(ts, i)
         THEN IF IsOp(ts, i + 1, "(") \/ IsNum(ts, i + 1) THEN JsFail
              ELSE JsOk(ts[i].n, i + 1, FALSE)
         ELSE IF IsOp(ts, i, "(") THEN JsClose(ts, Js("additive", ts, i + 1, 0))
         ELSE JsFail

JsWhole(ts, r) ==
  IF r.ok /\ r.i = Len(ts) + 1 THEN [k |-> "num", n |-> r.v] ELSE [k |-> "throw", n |-> 0]

\* new Function(`return ${sanitized}`)(): the number, "undefined" for an empty
\* text, or a throw.  A "/" of the model comes from "#N/A" alone and stands
\* where an operand is expected: it opens a regular expression or a comment
\* that the rest of an infix expression over + * ( ) never closes validly.
JsRun(ts) ==
  IF ts = <<>> THEN [k |-> "undefined", n |-> 0]
  ELSE IF \E i \in 1..Len(ts) : IsOp(ts, i, "/") THEN [k |-> "throw", n |-> 0]
  ELSE JsWhole(ts, Js("additive", ts, 1, 0))

\* typeof result !== 'number' || isNaN(result) gives 0; the catch rethrows
safeEvalResult(result) ==
  CASE result.k = "throw" -> ThrowV
    [] result.k = "undefined" -> NumV(0)
    [] OTHER -> NumV(result.n)

safeEval(expression) == safeEvalResult(JsRun(Sanitize(expression)))

\* -------------------------------------------------------------------- grid
\* Cell (the fields the services read or write); decimalPlaces is
\* style.decimalPlaces, -1 when the style or the field is absent.
Cell(row, col, value, displayValue, dataType, decimalPlaces) ==
  [row |-> row, col |-> col, value |-> value, displayValue |-> displayValue,
   dataType |-> dataType, decimalPlaces |-> decimalPlaces]

createEmptyCell(row, col) == Cell(row, col, StrV(""), StrV(""), "string", -1)

\* cells[row]?.[col] is defined
HasCell(cells, row, col) == row + 1 \in DOMAIN cells /\ col + 1 \in DOMAIN cells[row + 1]
CellAt(cells, row, col) == cells[row + 1][col + 1]

Rows(cells) == 1..Len(cells)
Cols(cells, r) == 1..Len(cells[r])

\* cells.map((row, rowIndex) => row.map((cell, colIndex) => Op(...)))
MapCells(cells, Op(_, _, _)) ==
  [r \in Rows(cells) |-> [c \in Cols(cells, r) |-> Op(cells[r][c], r - 1, c - 1)]]

\* colLetterToIndex: A -> 0, Z -> 25, AA -> 26
RECURSIVE colLetterFold(_, _, _)
colLetterFold(colLetter, i, index) ==
  IF i > Len(colLetter) THEN index
  ELSE colLetterFold(colLetter, i + 1, index * 26 + colLetter[i])

colLetterToIndex(colLetter) == colLetterFold(colLetter, 1, 0) - 1

\* a1ToCellAddress of a text the regular expression matched
a1ToCellAddress(t) ==
  [absoluteCol |-> t.ac, col |-> colLetterToIndex(t.col),
   absoluteRow |-> t.ar, row |-> t.row - 1]

\* ---------------------------------------------------------- FormulaService
\* a result with the height of the call tree that computed it
R(v, dep) == [v |-> v, dep |-> dep]

\* upperExpr.startsWith(name + '(')
startsWithCall(toks, name) ==
  /\ Len(toks) >= 2
  /\ toks[1].k = "name" /\ toks[1].s = name
  /\ IsOp(toks, 2, "(")

\* extractRange, /\(([^)]+)\)/: the text between the first "(" and the next ")"
RECURSIVE untilClose(_, _)
untilClose(toks, i) ==
  IF i > Len(toks) \/ IsOp(toks, i, ")") THEN <<>>
  ELSE <<toks[i]>> \o untilClose(toks, i + 1)

extractRange(toks) == untilClose(toks, 3)

\* range.split(':')
RECURSIVE splitColon(_)
splitColon(toks) ==
  IF \A i \in 1..Len(toks) : ~IsOp(toks, i, ":") THEN <<toks>>
  ELSE LET i == CHOOSE j \in 1..Len(toks) :
                  IsOp(toks, j, ":") /\ \A x \in 1..(j - 1) : ~IsOp(toks, x, ":")
       IN <<SubSeq(toks, 1, i - 1)>> \o splitColon(SubSeq(toks, i + 1, Len(toks)))

\* a1ToCellAddress accepts the text: it is one whole reference
isA1(toks) == Len(toks) = 1 /\ toks[1].k = "ref"

\* The recursion of evaluateFormula is kept as a table.  An activation that
\* still has h activations of stack below it reads, for the nested call on
\* the formula of cell (row, col), inner[row + 1][col + 1]: .ref when
\* replaceCellReferences makes the call (current address = the referenced
\* address), .rng when getCellNumericValue makes it (current address = the
\* cell's own row and col fields).

\* parseFloat(String(result)) || 0 of a nested result; a throw passes
numericResult(result) ==
  IF result.v.k \in {"throw", "num"} THEN result ELSE R(NumV(0), result.dep)

\* getCellNumericValue; texts of the model parse to NaN, hence 0
getCellNumericValue(cell, row, col, inner) ==
  IF cell.value.k = "num" THEN R(NumV(cell.value.n), 0)
  ELSE IF isFormula(cell.value) THEN numericResult(inner[row + 1][col + 1].rng)
  ELSE R(NumV(0), 0)

\* the two loops of getRangeValues over the rectangle box, cell k in
\* row-major order; a throw inside the try leaves the values pushed so far
RECURSIVE getRangeLoop(_, _, _, _, _)

getRangePush(cells, box, k, acc, inner, value) ==
  IF value.v.k = "throw" THEN R(acc.v, Max(acc.dep, value.dep))
  ELSE getRangeLoop(cells, box, k + 1,
                    R(Append(acc.v, value.v.n), Max(acc.dep, value.dep)), inner)

getRangeLoop(cells, box, k, acc, inner) ==
  IF k >= (box.maxRow - box.minRow + 1) * (box.maxCol - box.minCol + 1) THEN acc
  ELSE LET row == box.minRow + (k \div (box.maxCol - box.minCol + 1))
           col == box.minCol + (k % (box.maxCol - box.minCol + 1))
       IN IF ~HasCell(cells, row, col) THEN getRangeLoop(cells, box, k + 1, acc, inner)
          ELSE getRangePush(cells, box, k, acc, inner,
                            getCellNumericValue(CellAt(cells, row, col), row, col, inner))

rangeBox(startAddr, endAddr) ==
  [minRow |-> Min(startAddr.row, endAddr.row), maxRow |-> Max(startAddr.row, endAddr.row),
   minCol |-> Min(startAddr.col, endAddr.col), maxCol |-> Max(startAddr.col, endAddr.col)]

rangeParts(parts, cells, inner) ==
  IF Len(parts) < 2 \/ ~isA1(parts[1]) \/ ~isA1(parts[2]) THEN R(<<>>, 0)
  ELSE getRangeLoop(cells, rangeBox(a1ToCellAddress(parts[1][1]), a1ToCellAddress(parts[2][1])),
                    0, R(<<>>, 0), inner)

getRangeValues(range, cells, inner) == rangeParts(splitColon(range), cells, inner)

RECURSIVE SumSeq(_)
SumSeq(s) == IF s = <<>> THEN 0 ELSE Head(s) + SumSeq(Tail(s))

sumOf(values) == R(NumV(SumSeq(values.v)), values.dep)

evaluateSum(expression, cells, inner) ==
  sumOf(getRangeValues(extractRange(expression), cells, inner))

\* evaluateCount: the number of values getRangeValues pushed
countOf(values) == R(NumV(Len(values.v)), values.dep)

evaluateCount(expression, cells, inner) ==
  countOf(getRangeValues(extractRange(expression), cells, inner))

\* getRangeCells: the cells of the rectangle that exist, in row-major order
boxCells(cells, box) ==
  Flatten([k \in 1..((box.maxRow - box.minRow + 1) * (box.maxCol - box.minCol + 1)) |->
    IF HasCell(cells, box.minRow + ((k - 1) \div (box.maxCol - box.minCol + 1)),
               box.minCol + ((k - 1) % (box.maxCol - box.minCol + 1)))
    THEN <<CellAt(cells, box.minRow + ((k - 1) \div (box.maxCol - box.minCol + 1)),
                  box.minCol + ((k - 1) % (box.maxCol - box.minCol + 1)))>>
    ELSE <<>>])

rangeCells(parts, cells) ==
  IF Len(parts) < 2 \/ ~isA1(parts[1]) \/ ~isA1(parts[2]) THEN <<>>
  ELSE boxCells(cells, rangeBox(a1ToCellAddress(parts[1][1]), a1ToCellAddress(parts[2][1])))

getRangeCells(range, cells) == rangeCells(splitColon(range), cells)

\* cell.value !== null && cell.value !== undefined && cell.value !== ''
isNonEmpty(cell) == cell.value.k # "null" /\ cell.value # StrV("")

\* !cell.value || cell.value === '': null, '', 0 and false are falsy
isBlank(cell) ==
  \/ cell.value.k = "null"
  \/ cell.value = StrV("")
  \/ (cell.value.k \in {"num", "bool"} /\ cell.value.n = 0)

evaluateCountA(expression, cells) ==
  R(NumV(Len(SelectSeq(getRangeCells(extractRange(expression), cells), isNonEmpty))), 0)

evaluateCountBlank(expression, cells) ==
  R(NumV(Len(SelectSeq(getRangeCells(extractRange(expression), cells), isBlank))), 0)

\* evaluateMode: values.forEach keeps the value whose running frequency was
\* the first to exceed every frequency seen before
RECURSIVE modeLoop(_, _, _, _)

modeStep(values, i, maxFreq, mode, frequency) ==
  IF frequency > maxFreq THEN modeLoop(values, i + 1, frequency, values[i])
  ELSE modeLoop(values, i + 1, maxFreq, mode)

modeLoop(values, i, maxFreq, mode) ==
  IF i > Len(values) THEN mode
  ELSE modeStep(values, i, maxFreq, mode, Cardinality({j \in 1..i : values[j] = values[i]}))

modeOf(values) ==
  R(NumV(IF values.v = <<>> THEN 0 ELSE modeLoop(values.v, 1, 0, values.v[1])), values.dep)

evaluateMode(expression, cells, inner) ==
  modeOf(getRangeValues(extractRange(expression), cells, inner))

\* String(result) of a nested result spliced into the expression; the
\* RangeError of an exhausted stack is caught by the callback: '0'
spliced(result) ==
  CASE result.v.k = "throw" -> R(TNum(0), result.dep)
    [] result.v.k = "num" -> R(TNum(result.v.n), result.dep)
    [] OTHER -> R(TText(result.v.s), result.dep)

\* The callback of replaceCellReferences for the reference at address: the
\* text that replaces it.  The 'Circular reference' error is thrown inside
\* the callback's try: its catch returns '0'.
replaceAt(address, cells, currentRow, currentCol, inner) ==
  IF ~HasCell(cells, address.row, address.col) THEN R(TNum(0), 0)
  ELSE IF isFormula(CellAt(cells, address.row, address.col).value)
  THEN IF address.row = currentRow /\ address.col = currentCol
       THEN R(TNum(0), 0)
       ELSE spliced(inner[address.row + 1][address.col + 1].ref)
  ELSE CASE CellAt(cells, address.row, address.col).value.k = "null" -> R(TNum(0), 0)
         [] CellAt(cells, address.row, address.col).value.k = "num" ->
              R(TNum(CellAt(cells, address.row, address.col).value.n), 0)
         [] OTHER -> R(TQuoted(CellAt(cells, address.row, address.col).value.s), 0)

MaxOf(S) == CHOOSE x \in S : \A y \in S : y <= x

replaced(sub) ==
  R([i \in 1..Len(sub) |-> sub[i].v], MaxOf({sub[i].dep : i \in 1..Len(sub)} \cup {0}))

replaceCellReferences(expression, cells, currentRow, currentCol, inner) ==
  replaced([i \in 1..Len(expression) |->
              IF expression[i].k = "ref"
              THEN replaceAt(a1ToCellAddress(expression[i]), cells, currentRow, currentCol,
                             inner)
              ELSE R(expression[i], 0)] \o <<>>)

\* The text of a token sequence, as the string it is; a quoted value with
\* its quotes, or without them (replace(/"/g, '')).  After
\* replaceCellReferences no reference is left.
tokenText(t, quotes) ==
  CASE t.k = "num" -> ToString(t.n)
    [] t.k = "quoted" -> IF quotes THEN "\"" \o t.s \o "\"" ELSE t.s
    [] OTHER -> t.s

RECURSIVE textOf(_, _)
textOf(toks, quotes) ==
  IF toks = <<>> THEN "" ELSE tokenText(Head(toks), quotes) \o textOf(Tail(toks), quotes)

\* parseFloat / parseInt of a text of the model: the number it starts with,
\* after an optional sign; NaN otherwise
parseFloat(toks) ==
  IF IsNum(toks, 1) THEN [nan |-> FALSE, n |-> toks[1].n]
  ELSE IF IsOp(toks, 1, "+") /\ IsNum(toks, 2) THEN [nan |-> FALSE, n |-> toks[2].n]
  ELSE [nan |-> TRUE, n |-> 0]

\* extractMultipleArgs, /\((.+)\)/: the text between the first "(" and the
\* last ")", split at the commas outside parentheses.  A quoted text is one
\* token; the texts of the model hold no quote, comma or parenthesis.
hasOp(toks, s) == \E i \in 1..Len(toks) : IsOp(toks, i, s)

RECURSIVE argsLoop(_, _, _, _, _)
argsLoop(argsStr, i, parenDepth, currentArg, args) ==
  IF i > Len(argsStr) THEN (IF currentArg = <<>> THEN args ELSE Append(args, currentArg))
  ELSE IF IsOp(argsStr, i, ",") /\ parenDepth = 0
  THEN argsLoop(argsStr, i + 1, parenDepth, <<>>, Append(args, currentArg))
  ELSE argsLoop(argsStr, i + 1,
                parenDepth + (IF IsOp(argsStr, i, "(") THEN 1
                              ELSE IF IsOp(argsStr, i, ")") THEN -1 ELSE 0),
                Append(currentArg, argsStr[i]), args)

extractMultipleArgs(expression) ==
  IF ~hasOp(expression, "(") \/ ~hasOp(expression, ")") THEN <<>>
  ELSE LET first == CHOOSE i \in 1..Len(expression) :
                      IsOp(expression, i, "(") /\ \A j \in 1..(i - 1) : ~IsOp(expression, j, "(")
           last_ == CHOOSE i \in 1..Len(expression) :
                      IsOp(expression, i, ")")
                      /\ \A j \in (i + 1)..Len(expression) : ~IsOp(expression, j, ")")
       IN IF last_ <= first + 1 THEN <<>>
          ELSE argsLoop(SubSeq(expression, first + 1, last_ - 1), 1, 0, <<>>, <<>>)

\* evaluated.split(op): the texts before the first op and between the first
\* and the second op
RECURSIVE splitOn(_, _)
splitOn(toks, s) ==
  IF ~hasOp(toks, s) THEN <<toks>>
  ELSE LET i == CHOOSE j \in 1..Len(toks) :
                  IsOp(toks, j, s) /\ \A x \in 1..(j - 1) : ~IsOp(toks, x, s)
       IN <<SubSeq(toks, 1, i - 1)>> \o splitOn(SubSeq(toks, i + 1, Len(toks)), s)

\* the operator evaluateCondition finds, in the order it looks for them; the
\* operators of a condition are tokens of their own
conditionOperator(evaluated) ==
  IF hasOp(evaluated, ">=") THEN ">="
  ELSE IF hasOp(evaluated, "<=") THEN "<="
  ELSE IF hasOp(evaluated, "<>") THEN "<>"
  ELSE IF hasOp(evaluated, ">") THEN ">"
  ELSE IF hasOp(evaluated, "<") THEN "<"
  ELSE IF hasOp(evaluated, "=") THEN "="
  ELSE ""

\* numbers by parseFloat (a NaN compares false), texts by === and !==
comparedNumbers(op, left, right) ==
  /\ ~left.nan /\ ~right.nan
  /\ CASE op = ">=" -> left.n >= right.n
       [] op = "<=" -> left.n <= right.n
       [] op = ">" -> left.n > right.n
       [] op = "<" -> left.n < right.n

compared(op, evaluated, parts) ==
  CASE op = "" -> ~parseFloat(evaluated).nan /\ parseFloat(evaluated).n # 0
    [] op = "=" -> textOf(parts[1], FALSE) = textOf(parts[2], FALSE)
    [] op = "<>" -> textOf(parts[1], FALSE) # textOf(parts[2], FALSE)
    [] OTHER -> comparedNumbers(op, parseFloat(parts[1]), parseFloat(parts[2]))

conditionOf(evaluated, op) ==
  R(compared(op, evaluated.v, splitOn(evaluated.v, op)), evaluated.dep)

conditionFound(evaluated) == conditionOf(evaluated, conditionOperator(evaluated.v))

evaluateCondition(condition, cells, currentRow, currentCol, inner) ==
  conditionFound(replaceCellReferences(condition, cells, currentRow, currentCol, inner))

\* evaluateExpression: a quoted literal without its quotes; otherwise the
\* number the replaced text starts with, or the replaced text itself.  The
\* arguments of the model are no function calls.
expressionValue(evaluated, num) ==
  R(IF num.nan THEN StrV(textOf(evaluated.v, TRUE)) ELSE NumV(num.n), evaluated.dep)

expressionParsed(evaluated) == expressionValue(evaluated, parseFloat(evaluated.v))

evaluateExpression(expr, cells, currentRow, currentCol, inner) ==
  IF Len(expr) = 1 /\ expr[1].k = "quoted" THEN R(StrV(expr[1].s), 0)
  ELSE expressionParsed(replaceCellReferences(expr, cells, currentRow, currentCol, inner))

\* evaluateIf
ifBranch(args, condition, branch) == R(branch.v, Max(condition.dep, branch.dep))

ifChosen(args, condition, cells, currentRow, currentCol, inner) ==
  IF ~condition.v /\ Len(args) <= 2 THEN R(StrV(""), condition.dep)
  ELSE ifBranch(args, condition,
                evaluateExpression(IF condition.v THEN args[2] ELSE args[3],
                                   cells, currentRow, currentCol, inner))

ifArgs(args, cells, currentRow, currentCol, inner) ==
  IF Len(args) < 2 THEN R(ERROR, 0)
  ELSE ifChosen(args, evaluateCondition(args[1], cells, currentRow, currentCol, inner),
                cells, currentRow, currentCol, inner)

evaluateIf(expression, cells, currentRow, currentCol, inner) ==
  ifArgs(extractMultipleArgs(expression), cells, currentRow, currentCol, inner)

\* args.every / args.some of evaluateAnd and evaluateOr: the conditions are
\* evaluated in order until one is stop
RECURSIVE conditionsLoop(_, _, _, _, _, _, _, _)

conditionsNext(args, i, stop, dep, cells, currentRow, currentCol, inner, condition) ==
  IF condition.v = stop THEN R(stop, Max(dep, condition.dep))
  ELSE conditionsLoop(args, i + 1, stop, Max(dep, condition.dep), cells, currentRow,
                      currentCol, inner)

conditionsLoop(args, i, stop, dep, cells, currentRow, currentCol, inner) ==
  IF i > Len(args) THEN R(~stop, dep)
  ELSE conditionsNext(args, i, stop, dep, cells, currentRow, currentCol, inner,
                      evaluateCondition(args[i], cells, currentRow, currentCol, inner))

evaluateAnd(expression, cells, currentRow, currentCol, inner) ==
  conditionsLoop(extractMultipleArgs(expression), 1, FALSE, 0, cells, currentRow, currentCol,
                 inner)

evaluateOr(expression, cells, currentRow, currentCol, inner) ==
  conditionsLoop(extractMultipleArgs(expression), 1, TRUE, 0, cells, currentRow, currentCol,
                 inner)

\* evaluateNot: false unless it has one argument
negated(condition) == R(~condition.v, condition.dep)

notArgs(args, cells, currentRow, currentCol, inner) ==
  IF Len(args) # 1 THEN R(FALSE, 0)
  ELSE negated(evaluateCondition(args[1], cells, currentRow, currentCol, inner))

evaluateNot(expression, cells, currentRow, currentCol, inner) ==
  notArgs(extractMultipleArgs(expression), cells, currentRow, currentCol, inner)

\* getCellValue: '' for no cell and for null, the nested result for a
\* formula, the raw value otherwise
getCellValue(cells, row, col, inner) ==
  IF ~HasCell(cells, row, col) THEN R(StrV(""), 0)
  ELSE IF CellAt(cells, row, col).value.k = "null" THEN R(StrV(""), 0)
  ELSE IF isFormula(CellAt(cells, row, col).value) THEN inner[row + 1][col + 1].rng
  ELSE R(CellAt(cells, row, col).value, 0)

\* getRangeAs2DArray: the rows of the rectangle; a throw inside the try
\* leaves the rows pushed so far
RECURSIVE tableRows(_, _, _, _, _)

rowPushed(cells, box, row, acc, inner, rowData) ==
  IF \E c \in 1..Len(rowData) : rowData[c].v.k = "throw"
  THEN R(acc.v, MaxOf({acc.dep} \cup {rowData[c].dep : c \in 1..Len(rowData)}))
  ELSE tableRows(cells, box, row + 1,
                 R(Append(acc.v, [c \in 1..Len(rowData) |-> rowData[c].v]),
                   MaxOf({acc.dep} \cup {rowData[c].dep : c \in 1..Len(rowData)})),
                 inner)

tableRows(cells, box, row, acc, inner) ==
  IF row > box.maxRow THEN acc
  ELSE rowPushed(cells, box, row, acc, inner,
                 [c \in 1..(box.maxCol - box.minCol + 1) |->
                    getCellValue(cells, row, box.minCol + c - 1, inner)] \o <<>>)

tableParts(parts, cells, inner) ==
  IF Len(parts) < 2 \/ ~isA1(parts[1]) \/ ~isA1(parts[2]) THEN R(<<>>, 0)
  ELSE tableRows(cells, rangeBox(a1ToCellAddress(parts[1][1]), a1ToCellAddress(parts[2][1])),
                 Min(a1ToCellAddress(parts[1][1]).row, a1ToCellAddress(parts[2][1]).row),
                 R(<<>>, 0), inner)

getRangeAs2DArray(range, cells, inner) == tableParts(splitColon(range), cells, inner)

\* The texts of the model in the order of their lower-case forms, texts with
\* the same lower-case form together; the decimal text of a number stands
\* between "#N/A" and "false".
LowerCaseOrder == <<{""}, {"#ERROR!"}, {"#N/A"}, {}, {"false"}, {"text"}, {"true"}, {"YES", "yes"}>>

lowerCaseRank(value) ==
  IF value.k = "num" THEN 4
  ELSE CHOOSE i \in 1..Len(LowerCaseOrder) : value.s \in LowerCaseOrder[i]

\* compareValues: numbers by value, anything else by lower-case text
compareValues(a, b) ==
  IF a.k = "num" /\ b.k = "num"
  THEN (IF a.n < b.n THEN -1 ELSE IF a.n > b.n THEN 1 ELSE 0)
  ELSE IF lowerCaseRank(a) < lowerCaseRank(b) THEN -1
  ELSE IF lowerCaseRank(a) > lowerCaseRank(b) THEN 1 ELSE 0

vlookupExact(lookupValue, tableData, colIndex) ==
  IF \A i \in 1..Len(tableData) : compareValues(tableData[i][1], lookupValue) # 0
  THEN StrV("#N/A")
  ELSE tableData[CHOOSE i \in 1..Len(tableData) :
                   /\ compareValues(tableData[i][1], lookupValue) = 0
                   /\ \A j \in 1..(i - 1) : compareValues(tableData[j][1], lookupValue) # 0
                ][colIndex]

RECURSIVE vlookupApproximateLoop(_, _, _, _, _)

vlookupApproximateStep(lookupValue, tableData, colIndex, i, lastMatchIndex, comparison) ==
  IF comparison = 0 THEN tableData[i][colIndex]
  ELSE IF comparison < 0
  THEN vlookupApproximateLoop(lookupValue, tableData, colIndex, i + 1, i)
  ELSE IF lastMatchIndex >= 1 THEN tableData[lastMatchIndex][colIndex] ELSE StrV("#N/A")

vlookupApproximateLoop(lookupValue, tableData, colIndex, i, lastMatchIndex) ==
  IF i > Len(tableData)
  THEN (IF lastMatchIndex >= 1 THEN tableData[lastMatchIndex][colIndex] ELSE StrV("#N/A"))
  ELSE vlookupApproximateStep(lookupValue, tableData, colIndex, i, lastMatchIndex,
                              compareValues(tableData[i][1], lookupValue))

vlookupApproximate(lookupValue, tableData, colIndex) ==
  vlookupApproximateLoop(lookupValue, tableData, colIndex, 1, 0)

\* parseBooleanArg
parseBooleanArg(arg) ==
  IF Len(arg) = 1 /\ arg[1].k = "name" /\ arg[1].s \in {"TRUE", "FALSE"} THEN arg[1].s = "TRUE"
  ELSE ~parseFloat(arg).nan /\ parseFloat(arg).n # 0

\* evaluateVlookup
vlookupTable(lookupValue, tableData, colIndex, rangeLookup) ==
  R(IF Len(tableData.v) = 0 \/ Len(tableData.v[1]) < colIndex THEN StrV("#N/A")
    ELSE IF rangeLookup THEN vlookupApproximate(lookupValue.v, tableData.v, colIndex)
    ELSE vlookupExact(lookupValue.v, tableData.v, colIndex),
    Max(lookupValue.dep, tableData.dep))

vlookupParsed(lookupValue, tableRange, colIndex, rangeLookup, cells, inner) ==
  IF colIndex.nan \/ colIndex.n < 1 THEN R(ERROR, lookupValue.dep)
  ELSE vlookupTable(lookupValue, getRangeAs2DArray(tableRange, cells, inner), colIndex.n,
                    rangeLookup)

vlookupArgs(args, cells, currentRow, currentCol, inner) ==
  IF Len(args) < 3 THEN R(ERROR, 0)
  ELSE vlookupParsed(evaluateExpression(args[1], cells, currentRow, currentCol, inner),
                     args[2], parseFloat(args[3]),
                     IF Len(args) > 3 THEN parseBooleanArg(args[4]) ELSE TRUE,
                     cells, inner)

evaluateVlookup(expression, cells, currentRow, currentCol, inner) ==
  vlookupArgs(extractMultipleArgs(expression), cells, currentRow, currentCol, inner)

\* condition ? 1 : 0
oneOrZero(condition) == R(NumV(IF condition.v THEN 1 ELSE 0), condition.dep)

\* formula.trim().substring(1) of a value: the tokens after "=".  A text that
\* is no formula loses its first character, which for the model's texts is
\* none that survives sanitizing.
expressionOf(formula) ==
  IF formula.k = "formula" THEN formula.f ELSE <<TText(formula.s)>>

\* the activation's own frame on top of what it called
deeper(result) == R(result.v, 1 + result.dep)

\* the same return with no try around it: what safeEval throws is passed on
returned(evaluatedExpression, result) == R(result, 1 + evaluatedExpression.dep)

\* return this.safeEval(evaluatedExpression), inside the try of evaluateFormula
evaluated(evaluatedExpression, result) ==
  R(IF result.k = "throw" THEN ERROR ELSE result, 1 + evaluatedExpression.dep)

arithmetic(evaluatedExpression) ==
  evaluated(evaluatedExpression, safeEval(evaluatedExpression.v))

\* evaluateFormula as an activation with h activations of stack left, itself
\* included.  With none left (h = 0) the RangeError is raised either by the
\* call itself (m = "call": the caller's handler sees it) or inside the try
\* block of the new activation (m = "body": it returns '#ERROR!').  A number
\* or null has no trim(): TypeError inside the try.
evaluateFormula(formula, cells, currentRow, currentCol, h, m, inner) ==
  IF h = 0 THEN (IF m = "call" THEN R(ThrowV, 1) ELSE R(ERROR, 1))
  ELSE IF formula.k \in {"num", "null"} THEN R(ERROR, 1)
  ELSE IF startsWithCall(expressionOf(formula), "SUM")
  THEN deeper(evaluateSum(expressionOf(formula), cells, inner))
  ELSE IF startsWithCall(expressionOf(formula), "COUNT")
  THEN deeper(evaluateCount(expressionOf(formula), cells, inner))
  ELSE IF startsWithCall(expressionOf(formula), "COUNTA")
  THEN deeper(evaluateCountA(expressionOf(formula), cells))
  ELSE IF startsWithCall(expressionOf(formula), "COUNTBLANK")
  THEN deeper(evaluateCountBlank(expressionOf(formula), cells))
  ELSE IF startsWithCall(expressionOf(formula), "MODE")
  THEN deeper(evaluateMode(expressionOf(formula), cells, inner))
  ELSE IF startsWithCall(expressionOf(formula), "IF")
  THEN deeper(evaluateIf(expressionOf(formula), cells, currentRow, currentCol, inner))
  ELSE IF startsWithCall(expressionOf(formula), "AND")
  THEN deeper(oneOrZero(evaluateAnd(expressionOf(formula), cells, currentRow, currentCol,
                                    inner)))
  ELSE IF startsWithCall(expressionOf(formula), "OR")
  THEN deeper(oneOrZero(evaluateOr(expressionOf(formula), cells, currentRow, currentCol,
                                   inner)))
  ELSE IF startsWithCall(expressionOf(formula), "NOT")
  THEN deeper(oneOrZero(evaluateNot(expressionOf(formula), cells, currentRow, currentCol,
                                    inner)))
  ELSE IF startsWithCall(expressionOf(formula), "VLOOKUP")
  THEN deeper(evaluateVlookup(expressionOf(formula), cells, currentRow, currentCol, inner))
  ELSE arithmetic(replaceCellReferences(expressionOf(formula), cells, currentRow, currentCol,
                                        inner))

\* what an activation with h activations left returns for the formula of
\* every cell of the grid
nestedLevel(cells, h, m, inner) ==
  [r \in Rows(cells) |->
    [c \in Cols(cells, r) |->
      IF isFormula(cells[r][c].value)
      THEN [ref |-> evaluateFormula(cells[r][c].value, cells, r - 1, c - 1, h, m, inner),
            rng |-> evaluateFormula(cells[r][c].value, cells, cells[r][c].row,
                                    cells[r][c].col, h, m, inner)]
      ELSE [ref |-> R(NullV, 0), rng |-> R(NullV, 0)]] \o <<>>] \o <<>>

\* the tables for h, h + 1, ..., top activations left, each from the one
\* before it; a table equal to the one before it is equal to all that follow
RECURSIVE nestedFrom(_, _, _, _, _)

nestedNext(cells, h, top, m, inner, level) ==
  IF level = inner THEN inner ELSE nestedFrom(cells, h + 1, top, m, level)

nestedFrom(cells, h, top, m, inner) ==
  IF h > top THEN inner
  ELSE nestedNext(cells, h, top, m, inner, nestedLevel(cells, h, m, inner))

nested(cells, top, m) == nestedFrom(cells, 0, top, m, <<>>)

\* a caller's evaluateFormula(formula, cells, row, col): MaxStack activations
\* fit on the stack
evaluate(formula, cells, row, col, m) ==
  evaluateFormula(formula, cells, row, col, MaxStack, m, nested(cells, MaxStack - 1, m))

\* ---------------------------------------------------- SpreadsheetDataService
\* String(value) of a cell value
String(value) ==
  CASE value.k = "null" -> StrV("null")
    [] value.k = "bool" -> StrV(value.s)
    [] OTHER -> value

\* formatNumberValue; decimalPlaces stay within what toFixed accepts (0..100)
formatNumberValue(value, decimalPlaces) ==
  IF value.k # "num" THEN String(value)
  ELSE IF decimalPlaces >= 0 THEN FixedV(value.n, decimalPlaces)
  ELSE NumV(value.n)

\* what a handler leaves behind when it returns: the sheet's cells, the two
\* stacks, the height dep of its deepest evaluateFormula call tree, and
\* whether it rewrote formula text
Done(newCells, undo, redo, dep, rewrote) ==
  [cells |-> newCells, undoStack |-> undo, redoStack |-> redo, dep |-> dep,
   rewrote |-> rewrote]

\* deepest call tree among the table's results for formula cells
tableDepth(cells, table) ==
  MaxOf({0} \cup UNION {{table[r][c].ref.dep :
                            c \in {x \in Cols(cells, r) : isFormula(cells[r][x].value)}} :
                          r \in Rows(cells)})

\* a pass that leaves every cell as it is
passKept(workingCells, table) == [cells |-> workingCells, hasChanges |-> FALSE, dep |-> 0]

\* a pass that marks every cell of the sheet as a formula result
passEvery(workingCells, table) ==
  LET update(cell, r, c) == [cell EXCEPT !.dataType = "formula"]
  IN [cells |-> MapCells(workingCells, update), hasChanges |-> FALSE, dep |-> 0]

\* One pass of recalculateFormulasInSheet over workingCells, table holding
\* what evaluateFormula returns for every formula cell on workingCells as
\* they are when the pass starts.
passOver(workingCells, table) ==
  LET newDisplayValue(cell, r, c) ==
        formatNumberValue(table[r + 1][c + 1].ref.v, cell.decimalPlaces)
      update(cell, r, c) ==
        IF ~isFormula(cell.value) THEN cell
        ELSE IF table[r + 1][c + 1].ref.v.k = "throw"
        THEN [cell EXCEPT !.displayValue = ERROR, !.dataType = "error"]
        ELSE [cell EXCEPT !.displayValue = newDisplayValue(cell, r, c), !.dataType = "formula"]
  IN [cells |-> MapCells(workingCells, update),
      hasChanges |-> \E r \in Rows(workingCells) : \E c \in Cols(workingCells, r) :
                       /\ isFormula(workingCells[r][c].value)
                       /\ table[r][c].ref.v.k # "throw"
                       /\ workingCells[r][c].displayValue
                            # newDisplayValue(workingCells[r][c], r - 1, c - 1),
      dep |-> tableDepth(workingCells, table)]

recalculatePass(workingCells, m) == passOver(workingCells, nested(workingCells, MaxStack, m))

\* recalculateFormulasInSheet: at most MAX_PASSES passes, until one changes
\* no display value
RECURSIVE recalculateLoop(_, _, _, _)

\* a loop that ends with the pass just made, whatever it changed
passLast(pass, m, dep, p) == [cells |-> p.cells, dep |-> Max(dep, p.dep), passes |-> pass + 1]

passDone(pass, m, dep, p) ==
  IF p.hasChanges
  THEN recalculateLoop(p.cells, pass + 1, m, Max(dep, p.dep))
  ELSE [cells |-> p.cells, dep |-> Max(dep, p.dep), passes |-> pass + 1]

recalculateLoop(workingCells, pass, m, dep) ==
  IF pass >= MAX_PASSES THEN [cells |-> workingCells, dep |-> dep, passes |-> pass]
  ELSE passDone(pass, m, dep, recalculatePass(workingCells, m))

\* a service that leaves the sheet as it is
recalculateNothing(sheetCells, m) == [cells |-> sheetCells, dep |-> 0, passes |-> 0]

recalculateFormulasInSheet(sheetCells, m) == recalculateLoop(sheetCells, 0, m, 0)

\* recalculateAllFormulas on the one sheet of the loaded data
loaded(sheetCells, table) ==
  LET update(cell, r, c) ==
        IF ~isFormula(cell.value) THEN cell
        ELSE IF table[r + 1][c + 1].ref.v.k = "throw"
        THEN [cell EXCEPT !.displayValue = ERROR, !.dataType = "error"]
        ELSE [cell EXCEPT !.displayValue = String(table[r + 1][c + 1].ref.v),
                          !.dataType = "formula"]
  IN Done(MapCells(sheetCells, update), <<>>, <<>>, tableDepth(sheetCells, table), FALSE)

recalculateAllFormulas(sheetCells, m) == loaded(sheetCells, nested(sheetCells, MaxStack, m))

\* createEmptySheet({rowCount, colCount, data})
createEmptySheet(rowCount, colCount, data) ==
  [r \in 1..rowCount |->
    [c \in 1..colCount |->
      LET value == IF r <= Len(data) /\ c <= Len(data[r]) /\ data[r][c].k # "null"
                   THEN data[r][c] ELSE StrV("")
      IN Cell(r - 1, c - 1, value, String(value),
              IF value.k = "num" THEN "number" ELSE "string", -1)]]

\* HistoryEntry
Entry(type, row, col, oldValue, newValue, fromIndex, toIndex) ==
  [type |-> type, row |-> row, col |-> col, oldValue |-> oldValue, newValue |-> newValue,
   fromIndex |-> fromIndex, toIndex |-> toIndex]

\* addToHistory: the undo stack afterwards (the redo stack is emptied)
\* the push of addToHistory alone, without the limit
pushed(undo, entry) == Append(undo, entry)

addToHistory(undo, entry) ==
  IF Len(undo) + 1 > MAX_HISTORY THEN Tail(Append(undo, entry)) ELSE Append(undo, entry)

\* array.splice(index, 0, x) and array.splice(index, 1), 0 <= index <= length
InsertAt(seq, index, x) == SubSeq(seq, 1, index) \o <<x>> \o SubSeq(seq, index + 1, Len(seq))
RemoveAt(seq, index) == SubSeq(seq, 1, index) \o SubSeq(seq, index + 2, Len(seq))
\* Array.prototype.splice(start, deleteCount, ...): a negative start counts
\* from the end, a start beyond the end is the end
spliceStart(length, start) == IF start < 0 THEN Max(length + start, 0) ELSE Min(start, length)
spliceIn(seq, start, x) == InsertAt(seq, spliceStart(Len(seq), start), x)
spliceOut(seq, start) ==
  IF spliceStart(Len(seq), start) < Len(seq)
  THEN RemoveAt(seq, spliceStart(Len(seq), start)) ELSE seq

Move(seq, fromIndex, toIndex) == InsertAt(RemoveAt(seq, fromIndex), toIndex, seq[fromIndex + 1])
Pop(stack) == SubSeq(stack, 1, Len(stack) - 1)
Top(stack) == stack[Len(stack)]

\* ------------------------------------------------------------------ inputs
RefA1 == Ref(<<1>>, 1)
RefB1 == Ref(<<2>>, 1)
RefA2 == Ref(<<1>>, 2)
FormulaDouble == FormulaV(<<RefA1, TOp("*"), TNum(2)>>)
FormulaPlusTen == FormulaV(<<RefB1, TOp("+"), TNum(10)>>)
FormulaSelf == FormulaV(<<RefA1>>)
FormulaSum == FormulaV(<<TName("SUM"), TOp("("), RefA1, TOp(":"), RefA2, TOp(")")>>)
FormulaInvalid == FormulaV(<<TName("INVALID"), TOp("("), TOp(")")>>)
FormulaPlusOne == FormulaV(<<RefA1, TOp("+"), TNum(1)>>)
FormulaFar == FormulaV(<<Ref(<<26>>, 99), TOp("*"), TNum(2)>>)

\* values written by updateCell
Values ==
  {NumV(5), NumV(10), StrV(""), FormulaDouble, FormulaPlusTen, FormulaSelf, FormulaSum,
   FormulaInvalid, FormulaPlusOne, FormulaFar}

\* decimalPlaces set by updateCellStyle
DecimalPlaces == {0, 2}

\* stack exhaustion: where the RangeError is raised (see evaluateFormula)
Modes == {"call", "body"}

\* sheets given to loadData: a dependency chain whose middle cell carries
\* decimalPlaces, and a column of numbers with the sum of its first two
ChainSheet ==
  [createEmptySheet(InitRows, InitCols, << <<NumV(10), FormulaDouble>>, <<FormulaPlusTen>> >>)
     EXCEPT ![1][2].decimalPlaces = 2]

SumSheet ==
  createEmptySheet(MaxRows, InitCols, << <<NumV(5), FormulaSum>>, <<NumV(10)>>, <<NumV(5)>> >>)

Sheets == {ChainSheet, SumSheet}

\* ------------------------------------------------------------------- state
VARIABLES
  cells, rowCount, colCount,  \* the active sheet
  undoStack, redoStack,       \* the history
  last,                       \* the call that returned last
  ops,                        \* calls other than undo and redo made so far
  run,                        \* the current run of undo calls and following redo calls
  mixed,                      \* a call other than updateCell, reorderRow, reorderColumn,
                              \* undo and redo was made on this sheet
  conversion,                 \* a text in A1 notation on its way through a1ToCellAddress
                              \* and cellAddressToA1
  sheets, activeSheetIndex    \* the name and the isActive flag of every sheet of the
                              \* data, and the data's activeSheetIndex

vars ==
  <<cells, rowCount, colCount, undoStack, redoStack, last, ops, run, mixed, conversion,
    sheets, activeSheetIndex>>

\* no text is being converted
NoConversion == [stage |-> "none", a1 |-> <<>>, address |-> <<>>, text |-> <<>>]

\* a returned call; m is kept when the call exhausted the stack
Call(op, row, col, m, dep, rewrote) ==
  [op |-> op, row |-> row, col |-> col, m |-> IF dep > MaxStack THEN m ELSE "none",
   dep |-> dep, rewrote |-> rewrote]

\* createDefaultSpreadsheet: one sheet named 'Sheet1', active
createDefaultSpreadsheet ==
  [sheets |-> << [name |-> <<"S", "h", "e", "e", "t", "1">>, isActive |-> TRUE] >>,
   activeSheetIndex |-> 0]

\* the service starts on the default spreadsheet
DefaultData ==
  /\ sheets = createDefaultSpreadsheet.sheets
  /\ activeSheetIndex = createDefaultSpreadsheet.activeSheetIndex

NoRun == [phase |-> "edit", snap |-> <<>>, undos |-> 0, redos |-> 0]

\* the raw values of a grid
RawValues(grid) == [r \in Rows(grid) |-> [c \in Cols(grid, r) |-> grid[r][c].value]]

Init ==
  /\ cells = createEmptySheet(InitRows, InitCols, <<>>)
  /\ rowCount = InitRows
  /\ colCount = InitCols
  /\ undoStack = <<>>
  /\ redoStack = <<>>
  /\ last = Call("new", -1, -1, "none", 0, FALSE)
  /\ ops = 0
  /\ run = NoRun
  /\ mixed = FALSE
  /\ conversion = NoConversion
  /\ DefaultData

\* the handler op returns, leaving done
Returns(done, op, row, col, m) ==
  /\ cells' = done.cells
  /\ undoStack' = done.undoStack
  /\ redoStack' = done.redoStack
  /\ last' = Call(op, row, col, m, done.dep, done.rewrote)

\* getCell found a cell
getCell(row, col) ==
  /\ row >= 0 /\ row < rowCount /\ col >= 0 /\ col < colCount
  /\ HasCell(cells, row, col)

\* ---------------------------------------------------------------- handlers
\* updateCell(row, col, value); direct is the result of evaluating a formula
\* value on the sheet as it is before the write
recalculated(undo, directDep, updated) ==
  Done(updated.cells, undo, <<>>, Max(directDep, updated.dep), FALSE)

written(row, col, value, m, direct) ==
  LET cell == CellAt(cells, row, col)
      displayValue ==
        IF isFormula(value)
        THEN IF direct.v.k = "throw" THEN ERROR
             ELSE formatNumberValue(direct.v, cell.decimalPlaces)
        ELSE IF value.k = "num" THEN formatNumberValue(value, cell.decimalPlaces)
        ELSE String(value)
      dataType ==
        IF isFormula(value) THEN (IF direct.v.k = "throw" THEN "error" ELSE "formula")
        ELSE IF value.k = "num" THEN "number"
        ELSE IF value.k = "bool" THEN "boolean" ELSE "string"
  IN recalculated(
       addToHistory(undoStack, Entry("cell-update", row, col, cell.value, value, -1, -1)),
       direct.dep,
       recalculateFormulasInSheet(
         [cells EXCEPT ![row + 1][col + 1] =
            [cell EXCEPT !.value = value, !.displayValue = displayValue,
                         !.dataType = dataType]], m))

updateCell(row, col, value, m) ==
  written(row, col, value, m,
          IF isFormula(value) THEN evaluate(value, cells, row, col, m) ELSE R(NullV, 0))

UpdateCell ==
  \E row \in 0..(MaxRows - 1), col \in 0..(InitCols - 1), value \in Values, m \in Modes :
    /\ ops < MaxOps
    /\ getCell(row, col)
    /\ Returns(updateCell(row, col, value, m), "updateCell", row, col, m)
    /\ ops' = ops + 1
    /\ run' = NoRun
    /\ UNCHANGED <<rowCount, colCount, mixed>>
    /\ UNCHANGED <<conversion, sheets, activeSheetIndex>>

\* updateCellStyle(row, col, {decimalPlaces}); result is what evaluateFormula
\* returns for a cell of dataType 'formula'
styled(row, col, decimalPlaces, result) ==
  LET cell == CellAt(cells, row, col)
      newDisplayValue ==
        IF cell.dataType = "number" /\ cell.value.k = "num"
        THEN formatNumberValue(cell.value, decimalPlaces)
        ELSE IF cell.dataType = "formula"
        THEN IF result.v.k = "throw" THEN ERROR
             ELSE formatNumberValue(result.v, decimalPlaces)
        ELSE cell.displayValue
  IN Done([cells EXCEPT ![row + 1][col + 1] =
             [cell EXCEPT !.decimalPlaces = decimalPlaces, !.displayValue = newDisplayValue]],
          undoStack, redoStack, result.dep, FALSE)

updateCellStyle(row, col, decimalPlaces, m) ==
  styled(row, col, decimalPlaces,
         IF CellAt(cells, row, col).dataType = "formula"
         THEN evaluate(CellAt(cells, row, col).value, cells, row, col, m)
         ELSE R(NullV, 0))

UpdateCellStyle ==
  \E row \in 0..(MaxRows - 1), col \in 0..(InitCols - 1), decimalPlaces \in DecimalPlaces,
     m \in Modes :
    /\ ops < MaxOps
    /\ getCell(row, col)
    /\ Returns(updateCellStyle(row, col, decimalPlaces, m), "updateCellStyle", row, col, m)
    /\ ops' = ops + 1
    /\ run' = NoRun
    /\ mixed' = TRUE
    /\ UNCHANGED <<rowCount, colCount>>
    /\ UNCHANGED <<conversion, sheets, activeSheetIndex>>

\* loadData(data): the loaded sheet becomes the active sheet, the history is
\* cleared
LoadData ==
  \E sheet \in Sheets, m \in Modes :
    /\ ops < MaxOps
    /\ Returns(recalculateAllFormulas(sheet, m), "loadData", -1, -1, m)
    /\ rowCount' = Len(sheet)
    /\ colCount' = Len(sheet[1])
    /\ ops' = ops + 1
    /\ run' = NoRun
    /\ mixed' = FALSE
    /\ UNCHANGED <<conversion, sheets, activeSheetIndex>>

\* insertRow(atIndex): no formula is touched, nothing is recorded
insertRow(atIndex) ==
  LET newRow == [c \in 1..colCount |-> createEmptyCell(atIndex, c - 1)]
      reindex(cell, r, c) == IF r >= atIndex + 1 THEN [cell EXCEPT !.row = r] ELSE cell
  IN Done(MapCells(spliceIn(cells, atIndex, newRow), reindex), undoStack, redoStack, 0, FALSE)

InsertRow ==
  \E atIndex \in 0..MaxRows :
    /\ ops < MaxOps
    /\ rowCount < MaxRows
    /\ atIndex <= rowCount
    /\ Returns(insertRow(atIndex), "insertRow", atIndex, -1, "none")
    /\ rowCount' = rowCount + 1
    /\ ops' = ops + 1
    /\ run' = NoRun
    /\ mixed' = TRUE
    /\ UNCHANGED colCount
    /\ UNCHANGED <<conversion, sheets, activeSheetIndex>>

\* deleteRow(atIndex) past its guard
deleteRow(atIndex) ==
  LET reindex(cell, r, c) == IF r >= atIndex THEN [cell EXCEPT !.row = r] ELSE cell
  IN Done(MapCells(spliceOut(cells, atIndex), reindex), undoStack, redoStack, 0, FALSE)

\* insertColumn(atIndex); the loop's writes to newRow[col] with col < 0 add
\* no element to the row
insertColumn(atIndex) ==
  LET widened == [r \in Rows(cells) |-> spliceIn(cells[r], atIndex, createEmptyCell(r - 1, atIndex))]
      reindex(cell, r, c) == IF c >= atIndex + 1 THEN [cell EXCEPT !.col = c] ELSE cell
  IN Done(MapCells(widened, reindex), undoStack, redoStack, 0, FALSE)

\* deleteColumn(atIndex) past its guard
deleteColumn(atIndex) ==
  LET narrowed == [r \in Rows(cells) |-> spliceOut(cells[r], atIndex)]
      reindex(cell, r, c) == IF c >= atIndex THEN [cell EXCEPT !.col = c] ELSE cell
  IN Done(MapCells(narrowed, reindex), undoStack, redoStack, 0, FALSE)

\* indices handed to the structural calls: below, within and beyond the sheet
StructureIndices == (0 - 2)..(MaxRows + 1)

\* a structural call returns: no formula is touched, nothing is recorded
Restructured(done, op, atIndex, newRowCount, newColCount) ==
  /\ ops < MaxOps
  /\ Returns(done, op, atIndex, 0 - 1, "none")
  /\ rowCount' = newRowCount
  /\ colCount' = newColCount
  /\ ops' = ops + 1
  /\ run' = NoRun
  /\ mixed' = TRUE
  /\ UNCHANGED <<conversion, sheets, activeSheetIndex>>

\* insertRow(atIndex), any atIndex; below -1 the loop over the rows after
\* the new one starts at a negative index and updatedCells[row].map throws
\* a TypeError before updateSheet
InsertRowAt ==
  \E atIndex \in StructureIndices :
    /\ Len(cells) <= MaxRows
    /\ IF atIndex + 1 < 0 THEN UNCHANGED vars
       ELSE Restructured(insertRow(atIndex), "insertRow", atIndex, rowCount + 1, colCount)

\* deleteRow(atIndex), any atIndex; a negative one throws the same TypeError
DeleteRow ==
  \E atIndex \in StructureIndices :
    IF rowCount <= 1 \/ atIndex < 0 THEN UNCHANGED vars
    ELSE Restructured(deleteRow(atIndex), "deleteRow", atIndex, rowCount - 1, colCount)

InsertColumn ==
  \E atIndex \in StructureIndices :
    /\ \A r \in Rows(cells) : Len(cells[r]) <= InitCols
    /\ Restructured(insertColumn(atIndex), "insertColumn", atIndex, rowCount, colCount + 1)

DeleteColumn ==
  \E atIndex \in StructureIndices :
    IF colCount <= 1 THEN UNCHANGED vars
    ELSE Restructured(deleteColumn(atIndex), "deleteColumn", atIndex, rowCount, colCount - 1)

\* addRow(): insertRow(sheet.rowCount)
AddRow ==
  /\ Len(cells) <= MaxRows
  /\ Restructured(insertRow(rowCount), "addRow", rowCount, rowCount + 1, colCount)

\* addColumn(): insertColumn(sheet.colCount)
AddColumn ==
  /\ \A r \in Rows(cells) : Len(cells[r]) <= InitCols
  /\ Restructured(insertColumn(colCount), "addColumn", colCount, rowCount, colCount + 1)

\* indexToColumnLetter: 0 -> A, 25 -> Z, 26 -> AA
RECURSIVE indexToColumnFold(_, _)
indexToColumnFold(num, letter) ==
  IF num <= 0 THEN letter
  ELSE indexToColumnFold((num - 1) \div 26, <<((num - 1) % 26) + 1>> \o letter)

indexToColumnLetter(index) == indexToColumnFold(index + 1, <<>>)

\* the index a row or column gets when fromIndex moves to toIndex
\* the first case of the rewriting alone: the moved index
movedOnly(index, fromIndex, toIndex) == IF index = fromIndex THEN toIndex ELSE index

movedIndex(index, fromIndex, toIndex) ==
  IF index = fromIndex THEN toIndex
  ELSE IF fromIndex < toIndex /\ index > fromIndex /\ index <= toIndex THEN index - 1
  ELSE IF toIndex < fromIndex /\ index >= toIndex /\ index < fromIndex THEN index + 1
  ELSE index

\* updateRowReferencesInFormula / updateColumnReferencesInFormula
updateRowReferencesInFormula(formula, fromIndex, toIndex) ==
  [formula EXCEPT !.f = [i \in 1..Len(formula.f) |->
     IF formula.f[i].k = "ref"
     THEN [formula.f[i] EXCEPT !.row = movedIndex(@ - 1, fromIndex, toIndex) + 1]
     ELSE formula.f[i]]]

updateColumnReferencesInFormula(formula, fromIndex, toIndex) ==
  [formula EXCEPT !.f = [i \in 1..Len(formula.f) |->
     IF formula.f[i].k = "ref"
     THEN [formula.f[i] EXCEPT
             !.col = indexToColumnLetter(movedIndex(colLetterToIndex(@), fromIndex, toIndex))]
     ELSE formula.f[i]]]

\* the end of updateFormulasAfterRowReorder / updateFormulasAfterColumnReorder:
\* with hasChanges the rewritten sheet is stored and recalculated, and the
\* sheet recalculateFormulasInSheet returns is not stored
rewritten(sheetCells, updatedCells, m) ==
  Done(updatedCells, undoStack, redoStack,
       IF updatedCells # sheetCells THEN recalculateFormulasInSheet(updatedCells, m).dep ELSE 0,
       updatedCells # sheetCells)

updateFormulasAfterRowReorder(sheetCells, fromIndex, toIndex, m) ==
  LET rewrite(cell, r, c) ==
        IF r < rowCount /\ c < colCount /\ isFormula(cell.value)
        THEN [cell EXCEPT !.value = updateRowReferencesInFormula(@, fromIndex, toIndex)]
        ELSE cell
  IN rewritten(sheetCells, MapCells(sheetCells, rewrite), m)

updateFormulasAfterColumnReorder(sheetCells, fromIndex, toIndex, m) ==
  LET rewrite(cell, r, c) ==
        IF r < rowCount /\ c < colCount /\ isFormula(cell.value)
        THEN [cell EXCEPT !.value = updateColumnReferencesInFormula(@, fromIndex, toIndex)]
        ELSE cell
  IN rewritten(sheetCells, MapCells(sheetCells, rewrite), m)

\* reorderRow / reorderColumn up to their addToHistory; the guards are the
\* calls' early returns
CanReorderRow(fromIndex, toIndex) ==
  ~(\/ fromIndex < 0 \/ fromIndex >= rowCount
    \/ toIndex < 0 \/ toIndex >= rowCount
    \/ fromIndex = toIndex)

CanReorderColumn(fromIndex, toIndex) ==
  ~(\/ fromIndex < 0 \/ fromIndex >= colCount
    \/ toIndex < 0 \/ toIndex >= colCount
    \/ fromIndex = toIndex)

reorderRow(fromIndex, toIndex, m) ==
  LET setRow(cell, r, c) == [cell EXCEPT !.row = r]
  IN updateFormulasAfterRowReorder(MapCells(Move(cells, fromIndex, toIndex), setRow),
                                   fromIndex, toIndex, m)

reorderColumn(fromIndex, toIndex, m) ==
  LET setCol(cell, r, c) == [cell EXCEPT !.col = c]
  IN updateFormulasAfterColumnReorder(
       MapCells([r \in Rows(cells) |-> Move(cells[r], fromIndex, toIndex)], setCol),
       fromIndex, toIndex, m)

\* the call's addToHistory
recorded(done, entry) ==
  Done(done.cells, addToHistory(done.undoStack, entry), <<>>, done.dep, done.rewrote)

ReorderRow ==
  \E fromIndex \in 0..(MaxRows - 1), toIndex \in 0..(MaxRows - 1), m \in Modes :
    /\ ops < MaxOps
    /\ CanReorderRow(fromIndex, toIndex)
    /\ Returns(recorded(reorderRow(fromIndex, toIndex, m),
                        Entry("row-reorder", -1, -1, NullV, NullV, fromIndex, toIndex)),
               "reorderRow", fromIndex, toIndex, m)
    /\ ops' = ops + 1
    /\ run' = NoRun
    /\ UNCHANGED <<rowCount, colCount, mixed>>
    /\ UNCHANGED <<conversion, sheets, activeSheetIndex>>

ReorderColumn ==
  \E fromIndex \in 0..(InitCols - 1), toIndex \in 0..(InitCols - 1), m \in Modes :
    /\ ops < MaxOps
    /\ CanReorderColumn(fromIndex, toIndex)
    /\ Returns(recorded(reorderColumn(fromIndex, toIndex, m),
                        Entry("col-reorder", -1, -1, NullV, NullV, fromIndex, toIndex)),
               "reorderColumn", fromIndex, toIndex, m)
    /\ ops' = ops + 1
    /\ run' = NoRun
    /\ UNCHANGED <<rowCount, colCount, mixed>>
    /\ UNCHANGED <<conversion, sheets, activeSheetIndex>>

\* undo() and redo() apply the entry they popped.  ok: the entry was applied
\* (false when getCell finds no cell: the entry is dropped); cleared: the
\* entry was applied by reorderRow or reorderColumn, whose addToHistory
\* pushes onto the emptied undoStack (put back afterwards) and empties the
\* redoStack.
Applied(ok, cleared, done) == [ok |-> ok, cleared |-> cleared, done |-> done]

applyEntry(entry, value, fromIndex, toIndex, m) ==
  CASE entry.type = "cell-update" ->
         IF getCell(entry.row, entry.col)
         THEN Applied(TRUE, FALSE,
                Done([cells EXCEPT ![entry.row + 1][entry.col + 1] =
                        [@ EXCEPT !.value = value, !.displayValue = String(value)]],
                     undoStack, redoStack, 0, FALSE))
         ELSE Applied(FALSE, FALSE, Done(cells, undoStack, redoStack, 0, FALSE))
    [] entry.type = "row-reorder" ->
         IF CanReorderRow(fromIndex, toIndex)
         THEN Applied(TRUE, TRUE, reorderRow(fromIndex, toIndex, m))
         ELSE Applied(TRUE, FALSE, Done(cells, undoStack, redoStack, 0, FALSE))
    [] entry.type = "col-reorder" ->
         IF CanReorderColumn(fromIndex, toIndex)
         THEN Applied(TRUE, TRUE, reorderColumn(fromIndex, toIndex, m))
         ELSE Applied(TRUE, FALSE, Done(cells, undoStack, redoStack, 0, FALSE))

undone(entry, applied) ==
  Done(applied.done.cells,
       Pop(undoStack),
       IF applied.ok THEN Append(IF applied.cleared THEN <<>> ELSE redoStack, entry)
       ELSE redoStack,
       applied.done.dep, applied.done.rewrote)

undo(m) ==
  IF undoStack = <<>> THEN Done(cells, undoStack, redoStack, 0, FALSE)
  ELSE undone(Top(undoStack),
              applyEntry(Top(undoStack), Top(undoStack).oldValue,
                         Top(undoStack).toIndex, Top(undoStack).fromIndex, m))

redone(entry, applied) ==
  Done(applied.done.cells,
       IF applied.ok THEN Append(undoStack, entry) ELSE undoStack,
       IF applied.cleared THEN <<>> ELSE Pop(redoStack),
       applied.done.dep, applied.done.rewrote)

redo(m) ==
  IF redoStack = <<>> THEN Done(cells, undoStack, redoStack, 0, FALSE)
  ELSE redone(Top(redoStack),
              applyEntry(Top(redoStack), Top(redoStack).newValue,
                         Top(redoStack).fromIndex, Top(redoStack).toIndex, m))

\* A run is a sequence of undo calls followed by redo calls, with no other
\* call in between; snap holds the raw values before its first undo.
Undo ==
  \E m \in Modes :
    /\ run.phase # "undo" \/ run.undos < MaxUndo
    /\ Returns(undo(m), "undo", -1, -1, m)
    /\ run' = IF run.phase = "undo"
              THEN [run EXCEPT !.undos = @ + 1]
              ELSE [phase |-> "undo", snap |-> RawValues(cells), undos |-> 1, redos |-> 0]
    /\ UNCHANGED <<rowCount, colCount, ops, mixed>>
    /\ UNCHANGED <<conversion, sheets, activeSheetIndex>>

Redo ==
  \E m \in Modes :
    /\ run.phase = "edit" \/ run.redos < run.undos
    /\ Returns(redo(m), "redo", -1, -1, m)
    /\ run' = IF run.phase = "edit" THEN run
              ELSE [run EXCEPT !.phase = "redo", !.redos = @ + 1]
    /\ UNCHANGED <<rowCount, colCount, ops, mixed>>
    /\ UNCHANGED <<conversion, sheets, activeSheetIndex>>

Next ==
  \/ UpdateCell \/ UpdateCellStyle \/ LoadData \/ InsertRow
  \/ ReorderRow \/ ReorderColumn \/ Undo \/ Redo

Spec == Init /\ [][Next]_vars

\* the structural calls on a loaded sheet
StructureInit ==
  \E sheet \in Sheets :
    /\ cells = recalculateAllFormulas(sheet, "call").cells
    /\ rowCount = Len(sheet)
    /\ colCount = Len(sheet[1])
    /\ undoStack = <<>>
    /\ redoStack = <<>>
    /\ last = Call("loadData", 0 - 1, 0 - 1, "none", recalculateAllFormulas(sheet, "call").dep, FALSE)
    /\ ops = 0
    /\ run = NoRun
    /\ mixed = FALSE
    /\ conversion = NoConversion
    /\ DefaultData

StructureNext ==
  \/ InsertRowAt \/ DeleteRow \/ InsertColumn \/ DeleteColumn \/ AddRow \/ AddColumn
  \/ ReorderRow \/ ReorderColumn

StructureSpec == StructureInit /\ [][StructureNext]_vars


\* ------------------------------------------------ the function library
\* the function names evaluateFormula knows
FunctionLibrary ==
  {"SUM", "AVERAGE", "COUNT", "COUNTA", "COUNTBLANK", "MIN", "MAX", "MEDIAN", "MODE",
   "PRODUCT", "STDEV", "VAR", "CORREL", "PERCENTILE", "QUARTILE", "RANK", "IF", "IFS",
   "IFERROR", "IFNA", "AND", "OR", "NOT", "VLOOKUP"}

RefB2 == Ref(<<2>>, 2)

\* NAME(A1:B2)
OverA1B2(name) == FormulaV(<<TName(name), TOp("("), RefA1, TOp(":"), RefB2, TOp(")")>>)

\* IF(A1 op "yes",1,0)
IfYes(op) ==
  FormulaV(<<TName("IF"), TOp("("), RefA1, TOp(op), TQuoted("yes"), TOp(","), TNum(1),
             TOp(","), TNum(0), TOp(")")>>)

\* VLOOKUP(1,A1:B2,colIndex,FALSE)
Lookup(colIndex) ==
  FormulaV(<<TName("VLOOKUP"), TOp("("), TNum(1), TOp(","), RefA1, TOp(":"), RefB2, TOp(","),
             TNum(colIndex), TOp(","), TName("FALSE"), TOp(")")>>)

\* IF(A1>0,A1*2,0)
FormulaIfDouble ==
  FormulaV(<<TName("IF"), TOp("("), RefA1, TOp(">"), TNum(0), TOp(","), RefA1, TOp("*"),
             TNum(2), TOp(","), TNum(0), TOp(")")>>)

FormulaInvalidFive == FormulaV(<<TName("INVALID"), TOp("("), TNum(5), TOp(")")>>)
FormulaCount == OverA1B2("COUNT")
FormulaCountA == OverA1B2("COUNTA")
FormulaCountBlank == OverA1B2("COUNTBLANK")
FormulaMode == OverA1B2("MODE")
FormulaIfEqual == IfYes("=")
FormulaIfUnequal == IfYes("<>")
FormulaLookupZero == Lookup(0)
FormulaLookupTwo == Lookup(2)
FormulaLookupThree == Lookup(3)

\* values written by updateCell to a sheet of data
LibraryValues ==
  {FormulaInvalid, FormulaInvalidFive, FormulaCount, FormulaCountA, FormulaCountBlank,
   FormulaMode, FormulaIfEqual, FormulaIfUnequal, FormulaIfDouble, FormulaLookupZero,
   FormulaLookupTwo, FormulaLookupThree}

\* sheets of data given to loadData: numbers, and a text, a boolean, an
\* empty cell and the number 0; the last row is empty
NumberSheet ==
  createEmptySheet(MaxRows, InitCols, << <<NumV(1), NumV(2)>>, <<NumV(2), NumV(1)>> >>)

TextSheet ==
  createEmptySheet(MaxRows, InitCols,
                   << <<StrV("YES"), BoolV(FALSE)>>, <<StrV(""), NumV(0)>> >>)

LibrarySheets == {NumberSheet, TextSheet}

\* the service after loadData of a sheet of data
LibraryInit ==
  \E sheet \in LibrarySheets :
    /\ cells = sheet
    /\ rowCount = Len(sheet)
    /\ colCount = Len(sheet[1])
    /\ undoStack = <<>>
    /\ redoStack = <<>>
    /\ last = Call("loadData", -1, -1, "none", 0, FALSE)
    /\ ops = 0
    /\ run = NoRun
    /\ mixed = FALSE
    /\ conversion = NoConversion
    /\ DefaultData

\* updateCell(row, col, value) with a formula of the library, written below
\* the data
UpdateLibraryCell ==
  \E row \in 0..(MaxRows - 1), col \in 0..(InitCols - 1), value \in LibraryValues,
     m \in Modes :
    /\ ops < MaxOps
    /\ row = rowCount - 1
    /\ getCell(row, col)
    /\ Returns(updateCell(row, col, value, m), "updateCell", row, col, m)
    /\ ops' = ops + 1
    /\ run' = NoRun
    /\ UNCHANGED <<rowCount, colCount, mixed>>
    /\ UNCHANGED <<conversion, sheets, activeSheetIndex>>

LibraryNext == UpdateLibraryCell

LibrarySpec == LibraryInit /\ [][LibraryNext]_vars

\* ------------------------------------------------------------ a long history
\* The sheet after n calls updateCell(0, 0, value) on a new sheet, the values
\* being 5 and 10 in turn: every call recorded one entry.
TypedValue(i) == IF i % 2 = 1 THEN NumV(5) ELSE NumV(10)

TypedEntry(i) ==
  Entry("cell-update", 0, 0, IF i = 1 THEN StrV("") ELSE TypedValue(i - 1), TypedValue(i),
        -1, -1)

typedCell(cell, value) ==
  [cell EXCEPT !.value = value,
               !.displayValue = formatNumberValue(value, cell.decimalPlaces),
               !.dataType = "number"]

TypedCells(n) ==
  [createEmptySheet(InitRows, InitCols, <<>>) EXCEPT ![1][1] = typedCell(@, TypedValue(n))]

TypedHistory(n) == [i \in 1..n |-> TypedEntry(i)]

\* the history is one entry short of MAX_HISTORY, or holds MAX_HISTORY entries
HistoryInit ==
  \E n \in {MAX_HISTORY - 1, MAX_HISTORY} :
    /\ cells = TypedCells(n)
    /\ rowCount = InitRows
    /\ colCount = InitCols
    /\ undoStack = TypedHistory(n)
    /\ redoStack = <<>>
    /\ last = Call("updateCell", 0, 0, "none", 0, FALSE)
    /\ ops = 0
    /\ run = NoRun
    /\ mixed = FALSE
    /\ conversion = NoConversion
    /\ DefaultData

\* undo, while the history is at most one entry short of MAX_HISTORY
HistoryUndo ==
  /\ Len(undoStack) >= MAX_HISTORY - 1
  /\ Undo

HistoryNext == UpdateCell \/ ReorderRow \/ ReorderColumn \/ HistoryUndo \/ Redo

HistorySpec == HistoryInit /\ [][HistoryNext]_vars

\* ------------------------------------------------------- marked references
\* A sheet whose formulas hold references with every combination of $
\* markers, to rows and columns inside the grid and to a column outside it.
FormulaMarkedSum ==
  FormulaV(<<TRef(TRUE, <<1>>, TRUE, 1), TOp("+"), TRef(FALSE, <<1>>, TRUE, 2)>>)
FormulaMarkedFar ==
  FormulaV(<<TRef(TRUE, <<1>>, FALSE, 3), TOp("+"), TRef(TRUE, <<3>>, TRUE, 1)>>)
FormulaMarkedRange ==
  FormulaV(<<TName("SUM"), TOp("("), TRef(TRUE, <<1>>, TRUE, 1), TOp(":"),
             TRef(FALSE, <<1>>, FALSE, 2), TOp(")")>>)

MarkedSheet ==
  createEmptySheet(MaxRows, InitCols,
                   << <<NumV(5), FormulaMarkedSum>>, <<NumV(10), FormulaMarkedFar>>,
                      <<NumV(5), FormulaMarkedRange>> >>)

MarkedSheets == {MarkedSheet, SumSheet}

\* a sheet was loaded
ReorderInit ==
  \E sheet \in MarkedSheets :
    /\ cells = recalculateAllFormulas(sheet, "call").cells
    /\ rowCount = Len(sheet)
    /\ colCount = Len(sheet[1])
    /\ undoStack = <<>>
    /\ redoStack = <<>>
    /\ last = Call("loadData", -1, -1, "none", recalculateAllFormulas(sheet, "call").dep, FALSE)
    /\ ops = 0
    /\ run = NoRun
    /\ mixed = FALSE
    /\ conversion = NoConversion
    /\ DefaultData

ReorderNext == ReorderRow \/ ReorderColumn \/ Undo \/ Redo

ReorderSpec == ReorderInit /\ [][ReorderNext]_vars

\* ------------------------------------------------------------- a long chain
\* A column whose first cell holds a number and whose other cells each hold
\* a formula reading the cell above: a dependency chain of more formula
\* cells than recalculateFormulasInSheet makes passes.
ChainCells == MAX_PASSES + 1

FormulaAbove(r) == FormulaV(<<Ref(<<1>>, r - 1), TOp("+"), TNum(1)>>)

LongChainSheet ==
  createEmptySheet(ChainCells + 1, 1,
                   [r \in 1..(ChainCells + 1) |->
                      <<IF r = 1 THEN NumV(10) ELSE FormulaAbove(r)>>])

\* the column was loaded
ChainInit ==
  /\ cells = recalculateAllFormulas(LongChainSheet, "call").cells
  /\ rowCount = Len(LongChainSheet)
  /\ colCount = Len(LongChainSheet[1])
  /\ undoStack = <<>>
  /\ redoStack = <<>>
  /\ last = Call("loadData", -1, -1, "none",
                 recalculateAllFormulas(LongChainSheet, "call").dep, FALSE)
  /\ ops = 0
  /\ run = NoRun
  /\ mixed = FALSE
  /\ conversion = NoConversion
  /\ DefaultData

\* updateCell(row, 0, value) on the head or on the end of the chain
ChainValues == {NumV(5), NumV(10), StrV("")}

UpdateChainCell ==
  \E row \in {0, ChainCells}, value \in ChainValues, m \in Modes :
    /\ ops < MaxOps
    /\ getCell(row, 0)
    /\ Returns(updateCell(row, 0, value, m), "updateCell", row, 0, m)
    /\ ops' = ops + 1
    /\ run' = NoRun
    /\ UNCHANGED <<rowCount, colCount, mixed>>
    /\ UNCHANGED <<conversion, sheets, activeSheetIndex>>

ChainNext == UpdateChainCell \/ Undo \/ Redo

ChainSpec == ChainInit /\ [][ChainNext]_vars

\* ----------------------------------------------------------- cell addresses
\* A text in A1 notation is a sequence of characters.  The texts converted
\* have up to MaxLetters column letters and up to MaxDigits row digits.
MaxLetters == 2
MaxDigits == 2

UpperCase ==
  <<"A", "B", "C", "D", "E", "F", "G", "H", "I", "J", "K", "L", "M",
    "N", "O", "P", "Q", "R", "S", "T", "U", "V", "W", "X", "Y", "Z">>
Decimals == <<"0", "1", "2", "3", "4", "5", "6", "7", "8", "9">>

isUpperCase(ch) == \E i \in 1..Len(UpperCase) : UpperCase[i] = ch
isDecimal(ch) == \E i \in 1..Len(Decimals) : Decimals[i] = ch
\* 'A' is 65
charCodeAt(ch) == 64 + (CHOOSE i \in 1..Len(UpperCase) : UpperCase[i] = ch)
fromCharCode(code) == UpperCase[code - 64]
decimalValue(ch) == (CHOOSE i \in 1..Len(Decimals) : Decimals[i] = ch) - 1

\* only the last pass of the loop of colIndexToLetter
lastLetter(colIndex) == <<fromCharCode((colIndex % 26) + 65)>>

\* while (temp >= 0) { letter = fromCharCode(temp % 26 + 65) + letter; temp = floor(temp / 26) - 1 }
RECURSIVE colIndexToLetterLoop(_, _)
colIndexToLetterLoop(temp, letter) ==
  IF temp >= 0
  THEN colIndexToLetterLoop((temp \div 26) - 1, <<fromCharCode((temp % 26) + 65)>> \o letter)
  ELSE letter

colIndexToLetter(colIndex) == colIndexToLetterLoop(colIndex, <<>>)

\* charCodeAt(i) - 64 of every letter
letterCodes(letters) == [i \in 1..Len(letters) |-> charCodeAt(letters[i]) - 64]

\* parseInt(digits, 10) of a text of decimal digits
RECURSIVE parseIntLoop(_, _, _)
parseIntLoop(digits, i, n) ==
  IF i <= Len(digits) THEN parseIntLoop(digits, i + 1, n * 10 + decimalValue(digits[i])) ELSE n

parseInt(digits) == parseIntLoop(digits, 1, 0)

\* the text of a number that is not negative, as string concatenation makes it
RECURSIVE numberText(_)
numberText(n) ==
  IF n < 10 THEN <<Decimals[n + 1]>> ELSE numberText(n \div 10) \o <<Decimals[(n % 10) + 1]>>

\* the first position from i on that holds no letter, no digit
RECURSIVE lettersEnd(_, _)
lettersEnd(a1, i) == IF i <= Len(a1) /\ isUpperCase(a1[i]) THEN lettersEnd(a1, i + 1) ELSE i

RECURSIVE digitsEnd(_, _)
digitsEnd(a1, i) == IF i <= Len(a1) /\ isDecimal(a1[i]) THEN digitsEnd(a1, i + 1) ELSE i

\* a1.match(/^(\$?)([A-Z]+)(\$?)(\d+)$/): the groups, from the positions where
\* the letters start (p1) and end (p2) and the digits start (p3) and end (p4)
matchGroups(a1, p1, p2, p3, p4) ==
  [matched |-> p2 > p1 /\ p4 > p3 /\ p4 = Len(a1) + 1,
   colMarker |-> p1 = 2,
   letters |-> SubSeq(a1, p1, p2 - 1),
   rowMarker |-> p3 = p2 + 1,
   digits |-> SubSeq(a1, p3, p4 - 1)]

matchFrom(a1, p1, p2) ==
  matchGroups(a1, p1, p2,
              IF p2 <= Len(a1) /\ a1[p2] = "$" THEN p2 + 1 ELSE p2,
              digitsEnd(a1, IF p2 <= Len(a1) /\ a1[p2] = "$" THEN p2 + 1 ELSE p2))

match(a1) ==
  matchFrom(a1, IF a1 # <<>> /\ a1[1] = "$" THEN 2 ELSE 1,
            lettersEnd(a1, IF a1 # <<>> /\ a1[1] = "$" THEN 2 ELSE 1))

NoAddress == [thrown |-> TRUE, absoluteCol |-> FALSE, col |-> 0, absoluteRow |-> FALSE, row |-> 0]

parsedAddress(groups) ==
  IF ~groups.matched THEN NoAddress
  ELSE [thrown |-> FALSE,
        absoluteCol |-> groups.colMarker,
        col |-> colLetterToIndex(letterCodes(groups.letters)),
        absoluteRow |-> groups.rowMarker,
        row |-> parseInt(groups.digits) - 1]

\* a1ToCellAddress of any text
a1TextToCellAddress(a1) == parsedAddress(match(a1))

cellAddressToA1(address) ==
  (IF address.absoluteCol THEN <<"$">> ELSE <<>>) \o colIndexToLetter(address.col)
  \o (IF address.absoluteRow THEN <<"$">> ELSE <<>>) \o numberText(address.row + 1)

\* the texts converted: every combination of markers around some column
\* letters and some row digits, and two texts that are no references
SomeLetters == {"A", "B", "Z"}
SomeDigits == {"0", "1", "9"}
Words(alphabet, longest) == UNION {[1..n -> alphabet] : n \in 1..longest}
Markers == {<<>>, <<"$">>}

WellFormed ==
  {colMarker \o letters \o rowMarker \o digits :
     colMarker \in Markers, letters \in Words(SomeLetters, MaxLetters),
     rowMarker \in Markers, digits \in Words(SomeDigits, MaxDigits)}

A1Texts == WellFormed \cup {<<"A">>, <<"A", "$", "$", "1">>}

AddressInit ==
  \E a1 \in A1Texts :
    /\ cells = createEmptySheet(InitRows, InitCols, <<>>)
    /\ rowCount = InitRows
    /\ colCount = InitCols
    /\ undoStack = <<>>
    /\ redoStack = <<>>
    /\ last = Call("new", -1, -1, "none", 0, FALSE)
    /\ ops = 0
    /\ run = NoRun
    /\ mixed = FALSE
    /\ conversion = [stage |-> "text", a1 |-> a1, address |-> NoAddress, text |-> <<>>]
    /\ DefaultData

\* a1ToCellAddress(a1) returns an address or throws
ParseAddress ==
  /\ conversion.stage = "text"
  /\ conversion' =
       [conversion EXCEPT
          !.address = a1TextToCellAddress(conversion.a1),
          !.stage = IF a1TextToCellAddress(conversion.a1).thrown THEN "thrown" ELSE "address"]
  /\ UNCHANGED <<cells, rowCount, colCount, undoStack, redoStack, last, ops, run, mixed>>
  /\ UNCHANGED <<sheets, activeSheetIndex>>

\* cellAddressToA1 of the address that was returned
FormatAddress ==
  /\ conversion.stage = "address"
  /\ conversion' =
       [conversion EXCEPT !.text = cellAddressToA1(conversion.address), !.stage = "formatted"]
  /\ UNCHANGED <<cells, rowCount, colCount, undoStack, redoStack, last, ops, run, mixed>>
  /\ UNCHANGED <<sheets, activeSheetIndex>>

AddressNext == ParseAddress \/ FormatAddress

AddressSpec == AddressInit /\ [][AddressNext]_vars

\* ------------------------------------------------------------------ sheets
MaxSheets == 3

\* String.prototype.trim on a name of blanks and letters
isWhiteSpace(ch) == ch = " "

RECURSIVE trimStart(_)
trimStart(name) ==
  IF Len(name) > 0 /\ isWhiteSpace(Head(name)) THEN trimStart(Tail(name)) ELSE name

RECURSIVE trimEnd(_)
trimEnd(name) ==
  IF Len(name) > 0 /\ isWhiteSpace(name[Len(name)])
  THEN trimEnd(SubSeq(name, 1, Len(name) - 1)) ELSE name

trim(name) == trimEnd(trimStart(name))

\* names handed to addSheet and renameSheet; the empty one also stands for
\* a name that was not given
SheetNames == {<<>>, <<" ">>, <<"D">>, <<" ", "D", " ">>}

\* indices handed to the calls: below, within and beyond the sheets
SheetIndices == (0 - 1)..MaxSheets

Data(newSheets, newActiveIndex) == [sheets |-> newSheets, activeSheetIndex |-> newActiveIndex]

\* sheets.map((sheet, i) => ({...sheet, isActive: i === index}))
withActiveFlag(allSheets, index) ==
  [i \in 1..Len(allSheets) |-> [allSheets[i] EXCEPT !.isActive = (i - 1 = index)]]

\* sheets.filter((_, i) => i !== index)
withoutSheet(allSheets, index) ==
  [i \in 1..(Len(allSheets) - 1) |-> IF i - 1 < index THEN allSheets[i] ELSE allSheets[i + 1]]

setActiveSheet(data, index) ==
  IF index < 0 \/ index >= Len(data.sheets) THEN data
  ELSE Data(withActiveFlag(data.sheets, index), index)

addSheet(data, name) ==
  LET sheetNumber == Len(data.sheets) + 1
      sheetName == IF name # <<>> THEN name
                   ELSE <<"S", "h", "e", "e", "t">> \o numberText(sheetNumber)
  IN Data(Append(data.sheets, [name |-> sheetName, isActive |-> FALSE]),
          data.activeSheetIndex)

\* a deletion that takes the sheet out and leaves the rest as it is
removedSheet(data, index) ==
  IF Len(data.sheets) <= 1 \/ index < 0 \/ index >= Len(data.sheets) THEN data
  ELSE Data(withoutSheet(data.sheets, index), data.activeSheetIndex)

deleteSheet(data, index) ==
  IF Len(data.sheets) <= 1 THEN data
  ELSE IF index < 0 \/ index >= Len(data.sheets) THEN data
  ELSE LET updatedSheets == withoutSheet(data.sheets, index)
           newActiveIndex ==
             IF index = data.activeSheetIndex
             THEN (IF index >= Len(updatedSheets) THEN Len(updatedSheets) - 1 ELSE index)
             ELSE IF index < data.activeSheetIndex THEN data.activeSheetIndex - 1
             ELSE data.activeSheetIndex
       IN Data(withActiveFlag(updatedSheets, newActiveIndex), newActiveIndex)

renameSheet(data, index, newName) ==
  IF index < 0 \/ index >= Len(data.sheets) THEN data
  ELSE IF newName = <<>> \/ trim(newName) = <<>> THEN data
  ELSE Data([i \in 1..Len(data.sheets) |->
               IF i - 1 = index THEN [data.sheets[i] EXCEPT !.name = trim(newName)]
               ELSE data.sheets[i]],
            data.activeSheetIndex)

\* the call op(index) on the sheets returns, leaving data
SheetsReturn(data, op, index) ==
  /\ sheets' = data.sheets
  /\ activeSheetIndex' = data.activeSheetIndex
  /\ last' = Call(op, index, 0 - 1, "none", 0, FALSE)
  /\ UNCHANGED <<cells, rowCount, colCount, undoStack, redoStack, ops, run, mixed, conversion>>

SetActiveSheet ==
  \E index \in SheetIndices :
    SheetsReturn(setActiveSheet(Data(sheets, activeSheetIndex), index), "setActiveSheet", index)

AddSheet ==
  \E name \in SheetNames :
    /\ Len(sheets) < MaxSheets
    /\ SheetsReturn(addSheet(Data(sheets, activeSheetIndex), name), "addSheet", 0 - 1)

DeleteSheet ==
  \E index \in SheetIndices :
    SheetsReturn(deleteSheet(Data(sheets, activeSheetIndex), index), "deleteSheet", index)

RenameSheet ==
  \E index \in SheetIndices : \E newName \in SheetNames :
    SheetsReturn(renameSheet(Data(sheets, activeSheetIndex), index, newName),
                 "renameSheet", index)

SheetsNext == SetActiveSheet \/ AddSheet \/ DeleteSheet \/ RenameSheet

SheetsSpec == Init /\ [][SheetsNext]_vars

\* ------------------------------------------------------------- properties
\* what a formula cell shows when its display value is up to date: the
\* formatted result of evaluating it on the grid
shown(cell, result) ==
  IF result.v.k = "throw" THEN ERROR ELSE formatNumberValue(result.v, cell.decimalPlaces)

UpToDateIn(grid, table) ==
  \A r \in Rows(grid) : \A c \in Cols(grid, r) :
    isFormula(grid[r][c].value) => grid[r][c].displayValue = shown(grid[r][c], table[r][c].ref)

UpToDate(grid, m) == UpToDateIn(grid, nested(grid, MaxStack, m))

\* the way the last call met an exhausted stack, if it did
ModeOf(call) == IF call.m = "none" THEN "call" ELSE call.m

\* C1: after every updateCell call, each formula cell of the sheet displays
\* the formatted result of evaluating its formula on the sheet's current raw
\* values, wherever it sits relative to the cells it reads.
C1_DisplayFollowsValues ==
  last.op = "updateCell" => UpToDate(cells, ModeOf(last))

\* C1 witness: on the chain A1 = 10, B1 = A1*2, A2 = B1+10 the value of A1 was
\* changed from 10 to 5; B1 shows 10 and A2 shows 20.
C1_ChainUpdated ==
  /\ last.op = "updateCell" /\ last.row = 0 /\ last.col = 0
  /\ undoStack # <<>>
  /\ Top(undoStack).oldValue = NumV(10) /\ Top(undoStack).newValue = NumV(5)
  /\ HasCell(cells, 1, 0) /\ HasCell(cells, 0, 1)
  /\ cells[1][1].value = NumV(5)
  /\ cells[1][2].value = FormulaDouble /\ cells[1][2].displayValue = FixedV(10, 2)
  /\ cells[2][1].value = FormulaPlusTen /\ cells[2][1].displayValue = NumV(20)

\* C2: every call comes to its end by itself: the chain of nested
\* evaluateFormula activations a call builds ends before the call stack is
\* exhausted, also for formulas that refer to each other in a cycle and for
\* a range formula that sits inside its own range.
C2_EvaluationEndsByItself ==
  last.dep <= MaxStack

\* C3: after '=A1' is written to A1, evaluating it yields the error and the
\* cell displays "#ERROR!".
C3_SelfReferenceIsError ==
  (last.op = "updateCell" /\ last.row = 0 /\ last.col = 0 /\ cells[1][1].value = FormulaSelf)
    => /\ cells[1][1].displayValue = ERROR
       /\ \A m \in Modes : evaluate(FormulaSelf, cells, 0, 0, m).v = ERROR

\* C4: no exception leaves evaluateFormula, whatever the grid holds and
\* however the stack runs out: every formula cell evaluates to a number or to
\* the sentinel "#ERROR!", and no handler ever had to catch a throw of
\* evaluateFormula (no cell was given the data type 'error'; decimalPlaces
\* stay within what toFixed accepts).
NeverThrows(grid, table) ==
  \A r \in Rows(grid) : \A c \in Cols(grid, r) :
    /\ grid[r][c].dataType # "error"
    /\ isFormula(grid[r][c].value)
         => (table[r][c].ref.v.k = "num" \/ table[r][c].ref.v = ERROR)

shiftRowReferences(formula, k) ==
  [formula EXCEPT !.f = [i \in 1..Len(formula.f) |->
     IF formula.f[i].k = "ref" /\ formula.f[i].row - 1 >= k
     THEN [formula.f[i] EXCEPT !.row = @ + 1]
     ELSE formula.f[i]]]

\* C5: insertRow at index k rewrites every formula of the sheet: a reference
\* to a row at or below k refers to the row one further down afterwards,
\* references inside ranges included.
C5_InsertRowRewrites ==
  [][(last'.op = "insertRow" /\ ops' = ops + 1)
       => \A r \in Rows(cells) : \A c \in Cols(cells, r) :
            isFormula(cells[r][c].value)
              => cells'[IF r - 1 >= last'.row THEN r + 1 ELSE r][c].value
                   = shiftRowReferences(cells[r][c].value, last'.row)]_vars

\* C6: when reorderRow or reorderColumn rewrote formula text, the sheet it
\* leaves is recalculated: every formula cell displays the result of its
\* rewritten formula.
C6_ReorderRecalculates ==
  (last.op \in {"reorderRow", "reorderColumn"} /\ last.rewrote)
    => UpToDate(cells, ModeOf(last))

\* C7: an arithmetic formula that refers to another formula cell whose
\* evaluation is the error sentinel does not evaluate to a number.
ErrorsPropagate(grid, table) ==
  \A r \in Rows(grid) : \A c \in Cols(grid, r) :
    ( /\ isFormula(grid[r][c].value)
      /\ ~startsWithCall(grid[r][c].value.f, "SUM")
      /\ \E i \in 1..Len(grid[r][c].value.f) :
           /\ grid[r][c].value.f[i].k = "ref"
           /\ LET address == a1ToCellAddress(grid[r][c].value.f[i])
              IN /\ HasCell(grid, address.row, address.col)
                 /\ <<address.row, address.col>> # <<r - 1, c - 1>>
                 /\ isFormula(CellAt(grid, address.row, address.col).value)
                 /\ table[address.row + 1][address.col + 1].ref.v = ERROR )
    => table[r][c].ref.v.k # "num"

C7_ErrorOperandPropagates ==
  \A m \in Modes : ErrorsPropagate(cells, nested(cells, MaxStack, m))

\* the formula with 0 written in place of every reference to a cell that is
\* empty or outside the grid
zeroed(formula, grid) ==
  [formula EXCEPT !.f = [i \in 1..Len(formula.f) |->
     IF formula.f[i].k = "ref"
     THEN LET address == a1ToCellAddress(formula.f[i])
          IN IF ~HasCell(grid, address.row, address.col)
                \/ CellAt(grid, address.row, address.col).value = StrV("")
             THEN TNum(0) ELSE formula.f[i]
     ELSE formula.f[i]]]

\* C8: an arithmetic formula evaluates to what it evaluates to with 0 written
\* in place of its references to empty cells and to cells outside the grid,
\* in whatever operand position they stand.
EmptyIsZero(grid, m) ==
  \A r \in Rows(grid) : \A c \in Cols(grid, r) :
    (isFormula(grid[r][c].value) /\ ~startsWithCall(grid[r][c].value.f, "SUM"))
      => evaluate(grid[r][c].value, grid, r - 1, c - 1, m).v
           = evaluate(zeroed(grid[r][c].value, grid), grid, r - 1, c - 1, m).v

C8_EmptyReferenceIsZero ==
  \A m \in Modes : EmptyIsZero(cells, m)

\* C9: on a sheet that saw only cell updates and reorders, k undo calls
\* followed by k redo calls leave the raw values of the grid as they were
\* before the first undo.
C9_UndoRedoRestores ==
  (~mixed /\ run.phase = "redo" /\ run.redos = run.undos)
    => RawValues(cells) = run.snap

\* C10: after updateCell and loadData every formula cell, and after
\* updateCellStyle the styled formula cell, that has decimalPlaces = d >= 0
\* and a numeric result displays the result with exactly d fractional digits.
FixedDigits(grid, table, call) ==
  \A r \in Rows(grid) : \A c \in Cols(grid, r) :
    ( /\ isFormula(grid[r][c].value)
      /\ grid[r][c].decimalPlaces >= 0
      /\ table[r][c].ref.v.k = "num"
      /\ call.op = "updateCellStyle" => (call.row = r - 1 /\ call.col = c - 1) )
    => grid[r][c].displayValue = FixedV(table[r][c].ref.v.n, grid[r][c].decimalPlaces)

C10_DecimalPlacesApplied ==
  last.op \in {"updateCell", "updateCellStyle", "loadData"}
    => FixedDigits(cells, nested(cells, MaxStack, ModeOf(last)), last)

\* what evaluateFormula returns for the formula of every cell of the grid
Evaluation(grid, m) == nested(grid, MaxStack, m)

\* C11: a formula that calls a function name outside the library evaluates
\* to "#ERROR!", whatever stands between its parentheses.
UnknownCallsFail(grid, table) ==
  \A r \in Rows(grid) : \A c \in Cols(grid, r) :
    ( /\ isFormula(grid[r][c].value)
      /\ Len(grid[r][c].value.f) >= 2
      /\ grid[r][c].value.f[1].k = "name"
      /\ grid[r][c].value.f[1].s \notin FunctionLibrary
      /\ IsOp(grid[r][c].value.f, 2, "(") )
    => table[r][c].ref.v = ERROR

C11_UnknownFunctionIsError ==
  \A m \in Modes : UnknownCallsFail(cells, Evaluation(cells, m))

\* the cells of the range of a formula NAME(range) that is written on a grid
RangeOf(grid, formula) == getRangeCells(extractRange(formula.f), grid)

\* the range holds data only, no formula
IsDataRange(grid, formula) ==
  \A i \in 1..Len(RangeOf(grid, formula)) : ~isFormula(RangeOf(grid, formula)[i].value)

\* C12: COUNT(range) is the number of cells of the range that hold a number;
\* cells holding a text and empty cells are not counted.
CountsNumbers(grid, table) ==
  \A r \in Rows(grid) : \A c \in Cols(grid, r) :
    ( /\ isFormula(grid[r][c].value)
      /\ startsWithCall(grid[r][c].value.f, "COUNT")
      /\ IsDataRange(grid, grid[r][c].value) )
    => table[r][c].ref.v
         = NumV(Cardinality({i \in 1..Len(RangeOf(grid, grid[r][c].value)) :
                               RangeOf(grid, grid[r][c].value)[i].value.k = "num"}))

C12_CountCountsNumbers ==
  \A m \in Modes : CountsNumbers(cells, Evaluation(cells, m))

\* C13: COUNTA(range) + COUNTBLANK(range) is the number of cells of the range
\* that are in the grid, for a COUNTA and a COUNTBLANK formula over the same
\* range of data.
CountsPartition(grid, table) ==
  \A r \in Rows(grid) : \A c \in Cols(grid, r) :
    \A q \in Rows(grid) : \A d \in Cols(grid, q) :
      ( /\ isFormula(grid[r][c].value) /\ isFormula(grid[q][d].value)
        /\ startsWithCall(grid[r][c].value.f, "COUNTA")
        /\ startsWithCall(grid[q][d].value.f, "COUNTBLANK")
        /\ extractRange(grid[r][c].value.f) = extractRange(grid[q][d].value.f)
        /\ IsDataRange(grid, grid[r][c].value) )
      => /\ table[r][c].ref.v.k = "num" /\ table[q][d].ref.v.k = "num"
         /\ table[r][c].ref.v.n + table[q][d].ref.v.n = Len(RangeOf(grid, grid[r][c].value))

C13_CountAAndCountBlankPartition ==
  \A m \in Modes : CountsPartition(cells, Evaluation(cells, m))

\* the numbers of a range of data, in row-major order, and the value among
\* the most frequent ones that occurs first
NumbersOf(grid, formula) ==
  [i \in 1..Len(RangeOf(grid, formula)) |->
     IF RangeOf(grid, formula)[i].value.k = "num" THEN RangeOf(grid, formula)[i].value.n ELSE 0]

Frequency(values, v) == Cardinality({i \in 1..Len(values) : values[i] = v})

FirstMostFrequent(values) ==
  values[CHOOSE i \in 1..Len(values) :
           /\ \A j \in 1..Len(values) : Frequency(values, values[j]) <= Frequency(values, values[i])
           /\ \A j \in 1..(i - 1) :
                Frequency(values, values[j]) < Frequency(values, values[i])]

\* C14: MODE(range) is, among the values of the highest frequency, the one
\* that occurs first in the range; 1 for 1, 2, 2, 1.
ModeIsFirstMostFrequent(grid, table) ==
  \A r \in Rows(grid) : \A c \in Cols(grid, r) :
    ( /\ isFormula(grid[r][c].value)
      /\ startsWithCall(grid[r][c].value.f, "MODE")
      /\ IsDataRange(grid, grid[r][c].value)
      /\ RangeOf(grid, grid[r][c].value) # <<>> )
    => table[r][c].ref.v = NumV(FirstMostFrequent(NumbersOf(grid, grid[r][c].value)))

C14_ModeIsFirstMostFrequent ==
  \A m \in Modes : ModeIsFirstMostFrequent(cells, Evaluation(cells, m))

\* the formula cells of a grid that hold the given formula
HoldersOf(grid, formula) ==
  {rc \in {<<r, c>> : r \in 1..Len(grid), c \in 1..InitCols} : grid[rc[1]][rc[2]].value = formula}

\* C15: the operands of = and <> that are no numbers are compared as strings
\* without regard to case: with A1 holding the text YES, IF(A1="yes",1,0) is 1
\* and IF(A1<>"yes",1,0) is 0.
ComparesCaseInsensitively(grid, table) ==
  (grid[1][1].value = StrV("YES"))
  => /\ \A rc \in HoldersOf(grid, FormulaIfEqual) : table[rc[1]][rc[2]].ref.v = NumV(1)
     /\ \A rc \in HoldersOf(grid, FormulaIfUnequal) : table[rc[1]][rc[2]].ref.v = NumV(0)

C15_TextComparisonIgnoresCase ==
  \A m \in Modes : ComparesCaseInsensitively(cells, Evaluation(cells, m))

\* C16: a VLOOKUP whose column index is below 1 or above the width of the
\* table evaluates to "#ERROR!", the same in both cases.
InvalidColumnIsError(grid, table) ==
  \A rc \in HoldersOf(grid, FormulaLookupZero) \cup HoldersOf(grid, FormulaLookupThree) :
    table[rc[1]][rc[2]].ref.v = ERROR

C16_InvalidColumnIndexIsError ==
  \A m \in Modes : InvalidColumnIsError(cells, Evaluation(cells, m))

\* C17 as stated: the text made from the address of a text in A1 notation is
\* that text, whatever its markers, column letters and row digits.
C17_RoundTripOfEveryText ==
  conversion.stage = "formatted" => conversion.text = conversion.a1

\* the row digits are the decimal numeral of a number: no zero in front of
\* another digit
CanonicalRow(a1) ==
  Len(match(a1).digits) = 1 \/ match(a1).digits[1] # "0"

\* C17, amended: the text made from the address of a text in A1 notation is
\* that text when the row digits of the text have no leading zero.
C17_RoundTripOfCanonicalRows ==
  (conversion.stage = "formatted" /\ CanonicalRow(conversion.a1))
  => conversion.text = conversion.a1

\* a text with both markers, two column letters and two row digits came back
C17_AbsoluteReferenceCameBack ==
  /\ conversion.stage = "formatted"
  /\ conversion.a1 = <<"$", "A", "Z", "$", "1", "9">>
  /\ conversion.address = [thrown |-> FALSE, absoluteCol |-> TRUE, col |-> 51,
                           absoluteRow |-> TRUE, row |-> 18]
  /\ conversion.text = conversion.a1

\* the call that just returned recorded an entry on a full history: the oldest
\* entry is gone, the others moved down and the new entry is the last one
DiscardsOldest ==
  /\ Len(undoStack') = MAX_HISTORY
  /\ SubSeq(undoStack', 1, MAX_HISTORY - 1) = Tail(undoStack)
  /\ undoStack'[MAX_HISTORY].type =
       (CASE last'.op = "updateCell" -> "cell-update"
          [] last'.op = "reorderRow" -> "row-reorder"
          [] OTHER -> "col-reorder")

RecordsOnFullHistory ==
  ( /\ Len(undoStack) = MAX_HISTORY
    /\ ops' = ops + 1
    /\ last'.op \in {"updateCell", "reorderRow", "reorderColumn"} )
  => \/ DiscardsOldest
     \/ last'.op # "updateCell" /\ undoStack' = undoStack

\* C18: the undo history never holds more than MAX_HISTORY entries, whatever
\* updateCell, reorderRow, reorderColumn, undo and redo calls are made; a call
\* that records an entry when MAX_HISTORY entries are held discards the
\* oldest one (a reorder that moves nothing records nothing).
C18_HistoryIsBounded ==
  [](Len(undoStack) <= MAX_HISTORY) /\ [][RecordsOnFullHistory]_vars

\* an updateCell call was recorded on a full history, and the entry of the
\* first call is no longer held
C18_OldestEntryDiscarded ==
  /\ last.op = "updateCell"
  /\ ops > 0
  /\ Len(undoStack) = MAX_HISTORY
  /\ undoStack[1] = TypedEntry(2)
  /\ undoStack[MAX_HISTORY - 1] = TypedEntry(MAX_HISTORY)

\* two calls updateCell(0, 0, value) on a new sheet lead to the sheet and the
\* history written down for them
TwoTyped ==
  /\ cells = TypedCells(2)
  /\ undoStack = TypedHistory(2)
  /\ redoStack = <<>>
  /\ last = Call("updateCell", 0, 0, "none", 0, FALSE)
  /\ run = NoRun
  /\ mixed = FALSE

\* the value the formula of the cell at (r, c) evaluates to on a grid
ValueOn(grid, r, c, m) == Evaluation(grid, m)[r][c].ref.v

\* where the reorder that just returned put the cell that was at (r, c)
\* the permutation a move from index f to index t induces
Permuted(r, f, t) ==
  CASE r = f -> t
    [] f < r /\ r <= t -> r - 1
    [] t <= r /\ r < f -> r + 1
    [] OTHER -> r

RowAfter(call, r) == IF call.op = "reorderRow" THEN Permuted(r - 1, call.row, call.col) + 1 ELSE r
ColAfter(call, c) ==
  IF call.op = "reorderColumn" THEN Permuted(c - 1, call.row, call.col) + 1 ELSE c

\* C19: after reorderRow or reorderColumn every formula of the grid, a range
\* formula whose span holds moved or shifted rows included, evaluates to the
\* value it evaluated to before the call.
C19_ReorderPreservesValues ==
  [][(last'.op \in {"reorderRow", "reorderColumn"} /\ ops' = ops + 1)
       => \A r \in Rows(cells) : \A c \in Cols(cells, r) : \A m \in Modes :
            isFormula(cells[r][c].value)
              => ValueOn(cells', RowAfter(last', r), ColAfter(last', c), m)
                   = ValueOn(cells, r, c, m)]_vars

\* the token a reorder has to make of a reference: the row index (the column
\* index) permuted, the other index and both markers as they were
RowPermuted(t, f, to) == [t EXCEPT !.row = Permuted(@ - 1, f, to) + 1]
ColPermuted(t, f, to) ==
  [t EXCEPT !.col = indexToColumnLetter(Permuted(colLetterToIndex(@), f, to))]

RewrittenAs(before, after, call) ==
  /\ Len(after) = Len(before)
  /\ \A i \in 1..Len(before) :
       /\ before[i].k = "ref"
            => after[i] = IF call.op = "reorderRow"
                          THEN RowPermuted(before[i], call.row, call.col)
                          ELSE ColPermuted(before[i], call.row, call.col)
       /\ after[i].ac = before[i].ac
       /\ after[i].ar = before[i].ar

\* C20: a reorder from index f to index t rewrites the row (the column) index
\* r of every reference of every formula to t if r = f, to r - 1 if
\* f < r <= t, to r + 1 if t <= r < f and to r otherwise, and leaves the $
\* markers of the reference where they were.
C20_ReferencesFollowThePermutation ==
  [][(last'.op \in {"reorderRow", "reorderColumn"} /\ ops' = ops + 1)
       => \A r \in Rows(cells) : \A c \in Cols(cells, r) :
            isFormula(cells[r][c].value)
              => /\ isFormula(cells'[RowAfter(last', r)][ColAfter(last', c)].value)
                 /\ RewrittenAs(cells[r][c].value.f,
                                cells'[RowAfter(last', r)][ColAfter(last', c)].value.f,
                                last')]_vars

\* reorderRow(0, 2) moved the formula =$A$1+A$2 to the last row and made
\* =$A$3+A$1 of it
C20_MarkedReferencesRewritten ==
  /\ last.op = "reorderRow" /\ last.row = 0 /\ last.col = 2
  /\ ops = 1
  /\ cells[3][2].value =
       FormulaV(<<TRef(TRUE, <<1>>, TRUE, 3), TOp("+"), TRef(FALSE, <<1>>, TRUE, 1)>>)

\* the display value and the data type a cell write gives a cell for its raw
\* value, the formula's result being the one of the table
WrittenIn(cell, result) ==
  IF isFormula(cell.value)
  THEN cell.displayValue = shown(cell, result) /\ cell.dataType \in {"formula", "error"}
  ELSE IF cell.value.k = "num"
  THEN /\ cell.displayValue = formatNumberValue(cell.value, cell.decimalPlaces)
       /\ cell.dataType = "number"
  ELSE cell.displayValue = String(cell.value) /\ cell.dataType \in {"string", "boolean"}

\* the grid as a cell write to (row, col) would leave it
ConsistentAt(grid, row, col, table) ==
  /\ WrittenIn(grid[row + 1][col + 1], table[row + 1][col + 1].ref)
  /\ UpToDateIn(grid, table)

\* C21: after undo or redo of a cell update the restored cell displays what
\* its restored raw value evaluates to, with the data type of that value, and
\* every formula cell displays its evaluation on the restored grid.
C21_UndoRedoLeaveConsistentGrid ==
  [][( \/ /\ last'.op = "undo" /\ undoStack # <<>> /\ undoStack' = Pop(undoStack)
          /\ Top(undoStack).type = "cell-update" /\ redoStack' # redoStack
       \/ /\ last'.op = "redo" /\ redoStack # <<>> /\ redoStack' = Pop(redoStack)
          /\ Top(redoStack).type = "cell-update" /\ undoStack' # undoStack )
       => ConsistentAt(cells',
                       IF last'.op = "undo" THEN Top(undoStack).row ELSE Top(redoStack).row,
                       IF last'.op = "undo" THEN Top(undoStack).col ELSE Top(redoStack).col,
                       Evaluation(cells', ModeOf(last')))]_vars

\* C22: an undo call moves the entry it pops to the redo stack, a redo call
\* moves it to the undo stack, or the call leaves both stacks as they were; no
\* other entry leaves a stack.
C22_NoEntryLost ==
  [][/\ (last'.op = "undo" /\ run' # run)
        => \/ undoStack' = undoStack /\ redoStack' = redoStack
           \/ /\ undoStack # <<>>
              /\ undoStack' = Pop(undoStack)
              /\ redoStack' = Append(redoStack, Top(undoStack))
     /\ (last'.op = "redo" /\ (run' # run \/ redoStack' # redoStack))
        => \/ undoStack' = undoStack /\ redoStack' = redoStack
           \/ /\ redoStack # <<>>
              /\ redoStack' = Pop(redoStack)
              /\ undoStack' = Append(undoStack, Top(redoStack))]_vars

\* C30: every address a1ToCellAddress returns has a row and a column that are
\* not negative.
C30_AddressIsNotNegative ==
  conversion.stage \in {"address", "formatted"}
    => conversion.address.row >= 0 /\ conversion.address.col >= 0

\* a pass on the grid a first pass leaves changes nothing, the loop makes at
\* most two passes, and the grid it leaves displays every formula's
\* evaluation
FirstPassIsFixedPoint(first, second) ==
  /\ second.cells = first.cells
  /\ ~second.hasChanges

SecondPass(first, m) == FirstPassIsFixedPoint(first, recalculatePass(first.cells, m))

SettledAtOnce(m, whole) ==
  /\ whole.passes <= 2
  /\ UpToDate(whole.cells, m)

\* C23: a pass computes every display value from raw values, so the first
\* pass of a recalculation reaches the fixed point, the loop ends after at
\* most two passes, and a chain of more than MAX_PASSES formula cells is up to
\* date after one recalculation.
C23_FirstPassSettles ==
  \A m \in Modes :
    /\ SecondPass(recalculatePass(cells, m), m)
    /\ SettledAtOnce(m, recalculateFormulasInSheet(cells, m))

\* the end of the chain
ChainEnd(grid) == grid[ChainCells + 1][1]

\* the head of the whole chain was changed and the change undone: the end of
\* the chain displays a value that is not its evaluation, and one
\* recalculation of two passes makes it display its evaluation
C23_LongChainSettled ==
  /\ last.op = "undo"
  /\ cells[1][1].value = NumV(10)
  /\ \A r \in 2..(ChainCells + 1) : cells[r][1].value = FormulaAbove(r)
  /\ Evaluation(cells, "call")[ChainCells + 1][1].ref = R(NumV(10 + ChainCells), ChainCells)
  /\ ChainEnd(cells).displayValue # NumV(10 + ChainCells)
  /\ recalculateFormulasInSheet(cells, "call").passes = 2
  /\ ChainEnd(recalculateFormulasInSheet(cells, "call").cells).displayValue
       = NumV(10 + ChainCells)

\* a formula cell displays something else on the grid after the pass
Differs(before, after) ==
  \E r \in Rows(before) : \E c \in Cols(before, r) :
    isFormula(before[r][c].value) /\ after[r][c].displayValue # before[r][c].displayValue

\* the loop that makes passes while one changed a display value, MAX_PASSES at
\* most, ends with the grid and the number of passes of whole
RECURSIVE StopsAt(_, _, _, _)

StopsAfter(grid, pass, m, whole, after) ==
  IF Differs(grid, after) THEN StopsAt(after, pass + 1, m, whole)
  ELSE whole.passes = pass + 1 /\ whole.cells = after

StopsAt(grid, pass, m, whole) ==
  IF pass >= MAX_PASSES THEN whole.passes = pass /\ whole.cells = grid
  ELSE StopsAfter(grid, pass, m, whole, recalculatePass(grid, m).cells)

FailuresStoredAsErrors(grid, table) ==
  \A r \in Rows(grid) : \A c \in Cols(grid, r) :
    (isFormula(grid[r][c].value) /\ table[r][c].ref.v \in {ERROR, ThrowV})
      => grid[r][c].dataType = "error" /\ grid[r][c].displayValue = ERROR

\* C25: after the recalculation of an updateCell call, a formula cell whose
\* evaluation fails has dataType error and displays "#ERROR!", and every
\* other formula cell displays its evaluation.
C25_FailureStoredAsError ==
  last.op = "updateCell"
    => /\ FailuresStoredAsErrors(cells, Evaluation(cells, ModeOf(last)))
       /\ UpToDate(cells, ModeOf(last))

\* ------------------------------------------------------------------ C27
\* after differs from before in nothing but the displayValue and dataType of
\* formula cells: as many rows, as many cells in every row, every cell's
\* other fields as they were, every non-formula cell wholly as it was
OnlyFormulaResultsChanged(before, after) ==
  /\ Len(after) = Len(before)
  /\ \A r \in Rows(before) :
       /\ Len(after[r]) = Len(before[r])
       /\ \A c \in Cols(before, r) :
            /\ after[r][c].value = before[r][c].value
            /\ [after[r][c] EXCEPT !.displayValue = before[r][c].displayValue,
                                   !.dataType = before[r][c].dataType] = before[r][c]
            /\ ~isFormula(before[r][c].value) => after[r][c] = before[r][c]

\* C27: recalculation (recalculateFormulasInSheet and recalculateAllFormulas)
\* changes only the displayValue and dataType of formula cells: no raw
\* value, no non-formula cell, and not the number of rows, columns or cells.
C27_RecalculationFrame ==
  \A m \in Modes :
    /\ OnlyFormulaResultsChanged(cells, recalculateFormulasInSheet(cells, m).cells)
    /\ OnlyFormulaResultsChanged(cells, recalculateAllFormulas(cells, m).cells)

\* a sheet on which recalculation does change a formula cell's display value
\* next to cells holding plain values
C27_FormulaResultChanged ==
  /\ \E r \in Rows(cells) : \E c \in Cols(cells, r) :
       /\ isFormula(cells[r][c].value)
       /\ recalculateFormulasInSheet(cells, "call").cells[r][c].displayValue
            # cells[r][c].displayValue
       /\ recalculateAllFormulas(cells, "call").cells[r][c].displayValue
            # cells[r][c].displayValue
  /\ \E r \in Rows(cells) : \E c \in Cols(cells, r) :
       ~isFormula(cells[r][c].value) /\ cells[r][c].value # StrV("")

\* ------------------------------------------------------------------ C28
\* C28: after any sequence of addSheet, deleteSheet, setActiveSheet and
\* renameSheet calls, whatever their index arguments, there is at least one
\* sheet, activeSheetIndex is the index of a sheet, and that sheet is the
\* only one whose isActive flag is true.
C28_OneActiveSheet ==
  /\ Len(sheets) >= 1
  /\ 0 <= activeSheetIndex /\ activeSheetIndex < Len(sheets)
  /\ \A i \in 1..Len(sheets) : sheets[i].isActive <=> (i - 1 = activeSheetIndex)

\* deleteSheet(MaxSheets - 1) took the last sheet away and the sheet before
\* it is the active one, under a name renameSheet gave it
C28_LastSheetDeleted ==
  /\ last.op = "deleteSheet"
  /\ last.row = MaxSheets - 1
  /\ Len(sheets) = MaxSheets - 1
  /\ activeSheetIndex = MaxSheets - 2
  /\ sheets[MaxSheets - 1].name = <<"D">>

\* ------------------------------------------------------------------ C26
\* C26: after any sequence of insertRow, deleteRow, insertColumn,
\* deleteColumn, addRow, addColumn, reorderRow and reorderColumn calls with
\* any integer indices, rowCount is the number of rows of cells, colCount the
\* length of every row, both are at least 1, and every cell's row and col
\* fields are its position in the grid.
C26_SheetIsConsistent ==
  /\ rowCount = Len(cells)
  /\ \A r \in Rows(cells) : Len(cells[r]) = colCount
  /\ rowCount >= 1
  /\ colCount >= 1
  /\ \A r \in Rows(cells) : \A c \in Cols(cells, r) :
       cells[r][c].row = r - 1 /\ cells[r][c].col = c - 1

\* ------------------------------------------------------------------ C29
\* the argument IF selects in the formula of the cell at row, col: the
\* second when the condition holds, the third when it does not
SelectedBranch(args, condition) == IF condition.v THEN args[2] ELSE args[3]

\* what evaluateFormula returns for the selected argument written as a
\* formula of its own in the same cell
BranchAlone(grid, row, col, m, args) ==
  evaluate(FormulaV(SelectedBranch(args,
                                   evaluateCondition(args[1], grid, row, col,
                                                     nested(grid, MaxStack - 1, m)))),
           grid, row, col, m).v

\* C29: the value IF returns for the branch it selects is the value evaluate
\* returns for that argument as a standalone formula: an arithmetic branch
\* is computed arithmetically.
C29_IfBranchIsEvaluated ==
  \A m \in Modes : \A r \in Rows(cells) : \A c \in Cols(cells, r) :
    /\ isFormula(cells[r][c].value)
    /\ startsWithCall(expressionOf(cells[r][c].value), "IF")
    /\ Len(extractMultipleArgs(expressionOf(cells[r][c].value))) >= 3
    => evaluate(cells[r][c].value, cells, r - 1, c - 1, m).v
         = BranchAlone(cells, r - 1, c - 1, m,
                       extractMultipleArgs(expressionOf(cells[r][c].value)))


====
